---- MODULE Spec2Model ----
(***************************************************************************)
(* pymdict: dictionaries backed by MongoDB collections, with versions and   *)
(* forks (src/pymdict/mongo_dict.py).                                       *)
(*                                                                         *)
(* The backend is a database of collections, each a sequence of documents   *)
(* in insertion order, plus the reserved metadata collection.  A handle is  *)
(* a MongoDict object; its father (and the father's fathers) are immutable  *)
(* handles built when the handle is resolved, so a handle stores the list   *)
(* of the collections of its fathers, nearest first.                        *)
(***************************************************************************)
EXTENDS Integers, Sequences, FiniteSets, TLC

\* Bound of the model: number of write operations (set, delete, queued bulk
\* operation) issued in one behaviour.
MaxWrites == 2

RootId == "o"
\* The ids fork() gives to new dictionaries, in the order they are handed out.
ForkIdSeq == <<"f", "g">>
ForkIds == {ForkIdSeq[i] : i \in 1..Len(ForkIdSeq)}
DictIds == {RootId} \cup ForkIds
Keys == {"a", "b"}
Values == {1, 2}
\* Handle slots: A and B are opened by clients, a fork() returns its handle in
\* the slot named after the new dictionary.
ClientHandles == {"A", "B"}
HandleIds == ClientHandles \cup ForkIds
BufferSizes == {1}
MaxVersion == Cardinality(ForkIds)
Colls == DictIds \X (0..MaxVersion)

None == "None"
\* The value None of a tombstone document ('value': None).
NoneValue == 0
\* The result None of find_one.
NoDoc == [key |-> None, value |-> NoneValue, removed |-> FALSE]

VARIABLES
    db,        \* collection address -> sequence of documents
    meta,      \* the metadata collection: dict_id -> metadata record
    handles,   \* handle slot -> MongoDict object
    bulk,      \* the Bulk Writer of the open bulk scope
    writes,    \* number of write operations issued
    forkedBy,  \* history: new dict_id -> the handle slot whose fork() made it
    outcome,   \* the last call, for the calls whose outcome is recorded (a
               \* rejected fork(), ==, drop_dict()): what it was called on,
               \* what it gave its caller, and how much it moved
    request    \* the query text handed to MongoQueryParser.transform_request
               \* and, once the call has returned or raised, what it gave

vars == <<db, meta, handles, bulk, writes, forkedBy, outcome, request>>

-----------------------------------------------------------------------------
(* The backend: pymongo collection primitives.                             *)

\* self._storage[dict_id + ("v{}".format(version) if version > 0 else "")]
CollName(id, version) == <<id, version>>

Doc(k, v) == [key |-> k, value |-> v, removed |-> FALSE]
Tombstone(k) == [key |-> k, value |-> NoneValue, removed |-> TRUE]

Indexes(coll, k) == {i \in 1..Len(coll) : coll[i].key = k}
First(S) == CHOOSE i \in S : \A j \in S : i <= j

\* find_one({'key': k}): the first matching document in natural order.
find_one(coll, k) ==
    IF Indexes(coll, k) = {} THEN NoDoc ELSE coll[First(Indexes(coll, k))]

\* replace_one({'key': k}, doc, upsert=True)
replace_one(coll, k, doc) ==
    IF Indexes(coll, k) = {} THEN Append(coll, doc)
    ELSE [coll EXCEPT ![First(Indexes(coll, k))] = doc]

\* remove({'key': k}): removes every matching document.
RemoveAll(coll, k) == SelectSeq(coll, LAMBDA d : d.key # k)

\* DeleteOne({'key': k}): removes the first matching document.
DeleteOne(coll, k) ==
    IF Indexes(coll, k) = {} THEN coll
    ELSE LET i == First(Indexes(coll, k))
         IN  SubSeq(coll, 1, i - 1) \o SubSeq(coll, i + 1, Len(coll))

\* UpdateOne({'key': k}, {'$set': {'value': v}}, upsert=True): the other
\* fields of a matching document, ___removed included, are left as they are.
UpdateOneSetValue(coll, k, v) ==
    IF Indexes(coll, k) = {} THEN Append(coll, Doc(k, v))
    ELSE [coll EXCEPT ![First(Indexes(coll, k))].value = v]

\* UpdateOne({'key': k}, {'$set': {'value': None, '___removed': 1}}, upsert=True)
UpdateOneSetRemoved(coll, k) ==
    IF Indexes(coll, k) = {} THEN Append(coll, Tombstone(k))
    ELSE [coll EXCEPT ![First(Indexes(coll, k))] = Tombstone(k)]

\* InsertOne({'key': k, 'value': v}); the key index is a text index, not a
\* unique one.
InsertOne(coll, k, v) == Append(coll, Doc(k, v))

-----------------------------------------------------------------------------
(* The metadata registry.                                                  *)

NewMeta == [version |-> <<>>, modified |-> TRUE,
            ancestor_fork |-> None, ancestor_version |-> 0]

\* _load_version, lines 377-381: the record is created on first access.
EnsureMeta(m, id) ==
    IF id \in DOMAIN m THEN m
    ELSE [x \in DOMAIN m \cup {id} |-> IF x = id THEN NewMeta ELSE m[x]]

LatestVersion(m, id) ==
    IF Len(m[id].version) = 0 THEN 0 ELSE m[id].version[Len(m[id].version)]

on_modified_callback(m, id) == [m EXCEPT ![id].modified = TRUE]

-----------------------------------------------------------------------------
(* Handles.                                                                *)

ClosedHandle ==
    [open |-> FALSE, id |-> None, version |-> 0, immutable |-> FALSE,
     allow_morph |-> TRUE, update_required |-> FALSE, cls |-> "MongoDict",
     instance |-> CollName(RootId, 0), father |-> <<>>]

\* The handles MongoDict(id, version=v) builds recursively as its fathers
\* (_load_version, lines 395-402), as the list of their collections.
RECURSIVE FatherChain(_, _, _)
FatherChain(m, id, v) ==
    IF v > 0 THEN <<CollName(id, v - 1)>> \o FatherChain(m, id, v - 1)
    ELSE IF id \in DOMAIN m /\ m[id].ancestor_fork # None
         THEN <<CollName(m[id].ancestor_fork, m[id].ancestor_version)>>
              \o FatherChain(m, m[id].ancestor_fork, m[id].ancestor_version)
         ELSE <<>>

\* _morph_into_fork(father)
morph_into_fork(h, chain) ==
    [h EXCEPT !.cls = IF h.allow_morph THEN "ForkedMongoDict" ELSE @,
              !.father = IF h.allow_morph THEN chain ELSE @,
              !.instance = CollName(h.id, h.version)]

\* _load_version(version): version is <<>> for None, <<v>> for an explicit v;
\* m is the metadata after the record of h.id was read or created.
load_version(h, version, m) ==
    LET v  == IF version = <<>> THEN LatestVersion(m, h.id) ELSE version[1]
        h1 == [h EXCEPT !.version = v,
                        !.update_required = IF version = <<>> THEN FALSE ELSE @]
    IN  IF v > 0 \/ m[h.id].ancestor_fork # None
        THEN morph_into_fork(h1, FatherChain(m, h.id, v))
        ELSE h1

\* MongoDict.__init__
MongoDictInit(id, version, allow_morph, immutable, cls, m) ==
    [load_version([ClosedHandle EXCEPT !.open = TRUE, !.id = id,
                      !.allow_morph = allow_morph, !.immutable = immutable,
                      !.cls = cls, !.instance = CollName(id, 0)],
                  version, m)
     EXCEPT !.update_required = FALSE]

\* _update_from_latest(force_update)
update_from_latest(h, force_update, m) ==
    IF ~h.immutable /\ (h.update_required \/ force_update)
    THEN load_version(h, <<>>, m)
    ELSE h

-----------------------------------------------------------------------------
(* Reads and writes of one handle.  colls is the collection of the handle   *)
(* followed by the collections of its fathers; a father that has no father  *)
(* itself is a plain MongoDict, every other one a ForkedMongoDict.          *)

\* What __getitem__ gives: a value, or KeyError raised.
Found(v) == [ok |-> TRUE, value |-> v]
Raised == [ok |-> FALSE, value |-> NoneValue]

HandleColls(h) == <<h.instance>> \o h.father

\* BasicMongoDict.__getitem__(item) for a plain key
BasicGetItem(d, c, k) ==
    IF find_one(d[c], k) = NoDoc THEN Raised ELSE Found(find_one(d[c], k).value)

\* ForkedMongoDict.__getitem__((item,)): the document, NoDoc for KeyError.
RECURSIVE ForkedGetDoc(_, _, _)
ForkedGetDoc(d, colls, k) ==
    LET local  == find_one(d[colls[1]], k)
        result == IF local # NoDoc THEN local
                  ELSE IF Len(colls) = 2 THEN find_one(d[colls[2]], k)
                  ELSE ForkedGetDoc(d, Tail(colls), k)
    IN  IF result = NoDoc \/ result.removed THEN NoDoc ELSE result

\* A get that returns the value of the local entry without the tombstone test.
ForkedGetItemIgnoringRemoved(d, colls, k) ==
    LET local == find_one(d[colls[1]], k)
    IN  IF local # NoDoc THEN Found(local.value)
        ELSE IF Len(colls) = 2 THEN BasicGetItem(d, colls[2], k)
        ELSE IF ForkedGetDoc(d, Tail(colls), k) = NoDoc THEN Raised
        ELSE Found(ForkedGetDoc(d, Tail(colls), k).value)

\* ForkedMongoDict.__getitem__(item) for a plain key
ForkedGetItem(d, colls, k) ==
    IF ForkedGetDoc(d, colls, k) = NoDoc THEN Raised
    ELSE Found(ForkedGetDoc(d, colls, k).value)

\* BasicMongoDict.__contains__
BasicContains(d, c, k) == find_one(d[c], k) # NoDoc

\* ForkedMongoDict.__contains__
RECURSIVE ForkedContains(_, _, _)
ForkedContains(d, colls, k) ==
    LET i == find_one(d[colls[1]], k)
    IN  IF i = NoDoc
        THEN IF Len(colls) = 2 THEN BasicContains(d, colls[2], k)
             ELSE ForkedContains(d, Tail(colls), k)
        ELSE ~i.removed

\* BasicMongoDict.__len__
BasicLen(d, c) == Len(d[c])

Max(x, y) == IF x >= y THEN x ELSE y

\* ForkedMongoDict.__len__
RECURSIVE ForkedLen(_, _)
ForkedLen(d, colls) ==
    LET new_elements     == Len(SelectSeq(d[colls[1]], LAMBDA x : ~x.removed))
        removed_elements == Len(SelectSeq(d[colls[1]], LAMBDA x : x.removed))
        father_len       == IF Len(colls) = 2 THEN BasicLen(d, colls[2])
                            ELSE ForkedLen(d, Tail(colls))
    IN  Max(0, father_len - removed_elements) + new_elements

\* The query texts of the model and their compiled filters.
QueryTexts == {"", "value = 1", "value = 2"}

\* What MongoQueryParser.transform_request gives for the query texts of the
\* dictionaries: "" gives {} and "value = n" gives {'value': float(n)}.
QueryFilter(q) ==
    IF q = "" THEN [all |-> TRUE, value |-> NoneValue]
    ELSE IF q = "value = 1" THEN [all |-> FALSE, value |-> 1]
    ELSE [all |-> FALSE, value |-> 2]

\* Whether a document matches a compiled filter (collection.find).
Matches(f, x) == f.all \/ x.value = f.value

\* BasicMongoDict.__call__(query): the documents yielded, in order.
BasicCall(d, c, q) ==
    SelectSeq(d[c], LAMBDA x : Matches(QueryFilter(q), x))

SeqKeys(docs) == {docs[i].key : i \in 1..Len(docs)}

\* The father's documents a ForkedMongoDict.__call__ yields: those whose key
\* is not in mongo_used (lines 770-772).
FatherYield(fatherResult, mongo_used) ==
    SelectSeq(fatherResult, LAMBDA x : x.key \notin mongo_used)

\* ForkedMongoDict.__call__(query): the documents yielded, in order.
RECURSIVE ForkedCall(_, _, _)
ForkedCall(d, colls, q) ==
    LET edited  == SelectSeq(d[colls[1]],
                       LAMBDA x : Matches(QueryFilter(q), x) /\ ~x.removed)
        removed == SelectSeq(d[colls[1]], LAMBDA x : x.removed)
        mongo_used == SeqKeys(edited) \cup SeqKeys(removed)
        fatherResult == IF Len(colls) = 2 THEN BasicCall(d, colls[2], q)
                        ELSE ForkedCall(d, Tail(colls), q)
    IN  edited \o FatherYield(fatherResult, mongo_used)

\* BasicMongoDict.keys on a handle that is no fork: the keys of __iter__.
BasicKeys(d, c) == SeqKeys(d[c])

\* A keys() that leaves the locally tombstoned keys in the result.
RECURSIVE ForkedKeysKeepingRemoved(_, _)
ForkedKeysKeepingRemoved(d, colls) ==
    LET current_keys == d[colls[1]]
        father_keys  == IF Len(colls) = 2 THEN BasicKeys(d, colls[2])
                        ELSE ForkedKeysKeepingRemoved(d, Tail(colls))
    IN  father_keys \cup SeqKeys(current_keys)

\* ForkedMongoDict.keys, as a set.
RECURSIVE ForkedKeys(_, _)
ForkedKeys(d, colls) ==
    LET current_keys == d[colls[1]]
        removed_keys == SeqKeys(SelectSeq(current_keys, LAMBDA x : x.removed))
        father_keys  == IF Len(colls) = 2 THEN BasicKeys(d, colls[2])
                        ELSE ForkedKeys(d, Tail(colls))
    IN  (father_keys \cup SeqKeys(current_keys)) \ removed_keys

\* A set that updates the value field only and keeps the other fields.
BasicSetItemValueOnly(coll, k, v) == UpdateOneSetValue(coll, k, v)

\* BasicMongoDict.__setitem__: the collection after the write.
BasicSetItem(coll, k, v) == replace_one(coll, k, Doc(k, v))

\* BasicMongoDict.__delitem__: the collection after the write.
BasicDelItem(coll, k) == RemoveAll(coll, k)

\* A delete that marks the key in the father's collection.
ForkedDelTargetFather(h) == h.father[1]

\* ForkedMongoDict.__delitem__: the collection written, and its content after.
ForkedDelTarget(h) == h.instance
ForkedDelItem(coll, k) == replace_one(coll, k, Tombstone(k))

\* No bulk scope is open; raised tells that the last scope was left by the
\* BulkWriteError of a commit.
NoBulk == [open |-> FALSE, owner |-> None, id |-> None, forked |-> FALSE,
           instance |-> CollName(RootId, 0), buffer_size |-> 0,
           do_upserts |-> TRUE, operations |-> <<>>, raised |-> FALSE]

-----------------------------------------------------------------------------
(* The query compiler (src/pymdict/mongo_query_parser.py).  A str is the    *)
(* sequence of its characters and a list of str a sequence of them.  A call *)
(* that can raise gives a record whose field raise names the exception      *)
(* ("" when it returned).                                                   *)

ESCAPE_CHAR == "\\"

InList(list, x) == \E i \in 1..Len(list) : list[i] = x

\* list.index(x)
ListIndex(list, x) ==
    CHOOSE i \in 1..Len(list) :
        list[i] = x /\ \A j \in 1..(i - 1) : list[j] # x

\* The loop of _do_encapsulated_split from the character at index on.
RECURSIVE EncapsulatedScan(_, _, _, _, _, _, _)
EncapsulatedScan(text, index, sep_init, sep_end, open, previous, segment) ==
    IF index > Len(text) THEN segment
    ELSE LET l == text[index]
         IN  IF l = sep_init /\ ~open /\ previous # ESCAPE_CHAR
             THEN EncapsulatedScan(text, index + 1, sep_init, sep_end,
                                   TRUE, l, segment)
             ELSE IF l = sep_end /\ previous # ESCAPE_CHAR
             THEN segment
             ELSE EncapsulatedScan(text, index + 1, sep_init, sep_end, open, l,
                                   IF open THEN Append(segment, l) ELSE segment)

\* A split that keeps the separators of every span.
do_encapsulated_split_keeping(text, sep_init, sep_end, include_separators) ==
    <<sep_init>>
    \o EncapsulatedScan(text, 1, sep_init, sep_end, FALSE, "", <<>>)
    \o <<sep_end>>

do_encapsulated_split(text, sep_init, sep_end, include_separators) ==
    LET segment == EncapsulatedScan(text, 1, sep_init, sep_end, FALSE, "", <<>>)
    IN  IF include_separators
        THEN <<sep_init>> \o segment \o <<sep_end>>
        ELSE segment

\* The loop of _do_split from the character at index on; l_1 is the l_2 of
\* the round before.  args holds separator, open_splits, close_splits and
\* special_separators.
RECURSIVE SplitScan(_, _, _, _, _, _)
SplitScan(text, index, l_1, segment, segments, args) ==
    IF index > Len(text)
    THEN IF Len(segment) > 0 THEN Append(segments, segment) ELSE segments
    ELSE LET l_2 == text[index]
         IN  IF /\ InList(args.open_splits, l_2)
                /\ (l_1 = "" \/ l_1 = args.separator \/ args.separator = "")
             THEN LET open_split_index == ListIndex(args.open_splits, l_2)
                      found == do_encapsulated_split(
                                   SubSeq(text, index, Len(text)), l_2,
                                   args.close_splits[open_split_index],
                                   InList(args.special_separators, l_2))
                  IN  SplitScan(text, index + Len(found) + 2 + 1, l_2, <<>>,
                                Append(segments, found), args)
             ELSE IF l_2 = args.separator
             THEN SplitScan(text, index + 1, l_2, <<>>,
                            Append(segments, segment), args)
             ELSE SplitScan(text, index + 1, l_2, Append(segment, l_2),
                            segments, args)

do_split(text, separator, open_splits, close_splits, special_separators) ==
    SplitScan(text, 1, "", <<>>, <<>>,
              [separator |-> separator, open_splits |-> open_splits,
               close_splits |-> close_splits,
               special_separators |-> special_separators])

\* " ".join(splits)
RECURSIVE Join(_)
Join(splits) ==
    IF Len(splits) = 0 THEN <<>>
    ELSE IF Len(splits) = 1 THEN splits[1]
    ELSE splits[1] \o <<" ">> \o Join(Tail(splits))

\* str.strip()
RECURSIVE Strip(_)
Strip(text) ==
    IF Len(text) = 0 THEN text
    ELSE IF text[1] = " " THEN Strip(Tail(text))
    ELSE IF text[Len(text)] = " " THEN Strip(SubSeq(text, 1, Len(text) - 1))
    ELSE text

\* An element of an ops tree: a Python list (an empty one, one of a single
\* token, or [operator, previous_oper, next_oper]) or a Python dict with
\* the lists of the keys 'and', 'or' and None.  An exception raised while
\* the element was built is named by raise; a syntax error carries the
\* tokens it was raised on.
OpsList(items) ==
    [raise |-> "", splits |-> <<>>, type |-> "list", items |-> items,
     ands |-> <<>>, ors |-> <<>>, base |-> <<>>]

OpsDict(ands, ors, base) ==
    [raise |-> "", splits |-> <<>>, type |-> "dict", items |-> <<>>,
     ands |-> ands, ors |-> ors, base |-> base]

OpsRaise(exception, splits) ==
    [raise |-> exception, splits |-> splits, type |-> "list", items |-> <<>>,
     ands |-> <<>>, ors |-> <<>>, base |-> <<>>]

AND == <<"a", "n", "d">>
OR == <<"o", "r">>

first_level_operators ==
    << <<">">>, <<"<">>, <<"=">>, <<"!", "=">>, <<">", "=">>, <<"<", "=">>,
       <<"e", "q">>, <<"!", "e", "q">>, <<"i", "n">>, <<"%">>, <<"!", "%">> >>

retrieve_ops2_tree(splits) ==
    IF Len(splits) < 3 THEN OpsRaise("Invalid syntax", splits)
    ELSE IF ~InList(first_level_operators, splits[2])
    THEN OpsRaise("Invalid operator", splits)
    ELSE OpsList(<<splits[2], SubSeq(splits, 1, 1), SubSeq(splits, 3, Len(splits))>>)

\* operators[operand].append(previous_oper)
OpsAppend(operators, operand, previous_oper) ==
    IF operand = AND THEN [operators EXCEPT !.ands = Append(@, previous_oper)]
    ELSE IF operand = OR THEN [operators EXCEPT !.ors = Append(@, previous_oper)]
    ELSE [operators EXCEPT !.base = Append(@, previous_oper)]

RECURSIVE retrieve_ops_tree(_, _, _)
RECURSIVE OpsScan(_, _, _, _, _, _, _)

\* The loop of _retrieve_ops_tree from the token at index on, and what
\* follows the loop.  Indices count from 1.  A call of _retrieve_ops_tree
\* on the list it was itself called on never returns: it ends in Python's
\* RecursionError.
OpsScan(splits, index, previous_index, last_operand, operators,
        open_splits, close_splits) ==
    IF index > Len(splits)
    THEN IF Len(splits) = 0 THEN OpsRaise("UnboundLocalError", <<>>)
         ELSE IF previous_index <= Len(splits)
         THEN LET previous_oper == SubSeq(splits, previous_index, Len(splits))
                  again == do_split(previous_oper[1], " ", open_splits,
                                    close_splits, <<>>)
                  tree == IF Len(previous_oper) > 1
                          THEN retrieve_ops2_tree(previous_oper)
                          ELSE IF again = splits
                          THEN OpsRaise("RecursionError", <<>>)
                          ELSE retrieve_ops_tree(again, <<>>, <<>>)
              IN  IF tree.raise # "" THEN tree
                  ELSE OpsAppend(operators, last_operand, tree)
         ELSE operators
    ELSE IF splits[index] = AND \/ splits[index] = OR
    THEN LET previous_oper == SubSeq(splits, previous_index, index - 1)
             tree == IF Len(previous_oper) > 1
                     THEN retrieve_ops2_tree(previous_oper)
                     ELSE IF Len(previous_oper) = 1
                     THEN IF Len(previous_oper[1]) = 0
                          THEN OpsRaise("IndexError", <<>>)
                          ELSE IF previous_oper[1][1] # "["
                          THEN retrieve_ops_tree(
                                   do_split(Strip(previous_oper[1]), " ",
                                            open_splits, close_splits, <<>>),
                                   <<>>, <<>>)
                          ELSE OpsList(previous_oper)
                     ELSE OpsList(previous_oper)
         IN  IF tree.raise # "" THEN tree
             ELSE OpsScan(splits, index + 1, index + 1, splits[index],
                          OpsAppend(operators, splits[index], tree),
                          open_splits, close_splits)
    ELSE OpsScan(splits, index + 1, previous_index, last_operand, operators,
                 open_splits, close_splits)

\* The inner calls (lines 221 and 232) pass no open_splits and no
\* close_splits on, so the lists they split with are those of the caller
\* only in the outermost call.
retrieve_ops_tree(splits, open_splits, close_splits) ==
    OpsScan(splits, 1, 1, <<>>, OpsDict(<<>>, <<>>, <<>>),
            open_splits, close_splits)

\* The values of a filter: a float, a str, a compiled pattern, or a list.
Float(x) == [type |-> "float", float |-> x, str |-> <<>>, list |-> <<>>]
Str(text) == [type |-> "str", float |-> 0, str |-> text, list |-> <<>>]
Pattern(text) == [type |-> "re.Pattern", float |-> 0, str |-> text, list |-> <<>>]
List(values) == [type |-> "list", float |-> 0, str |-> <<>>, list |-> values]

\* The filters: {}, {operand1: value}, {operand1: {oper: value}},
\* {'$and': list} and {'$or': list}.
EmptyFilter ==
    [type |-> "{}", field |-> <<>>, oper |-> "", value |-> Float(0),
     list |-> <<>>]

FieldIs(operand1, value) ==
    [type |-> "field", field |-> operand1, oper |-> "", value |-> value,
     list |-> <<>>]

FieldOp(operand1, oper, value) ==
    [type |-> "field", field |-> operand1, oper |-> oper, value |-> value,
     list |-> <<>>]

Junction(oper, list) ==
    [type |-> oper, field |-> <<>>, oper |-> "", value |-> Float(0),
     list |-> list]

\* What a conversion gives: the filter, or the exception raised.
Returns(mongo) == [raise |-> "", splits |-> <<>>, mongo |-> mongo]
Raises(exception, splits) ==
    [raise |-> exception, splits |-> splits, mongo |-> EmptyFilter]

Digits == <<"0", "1", "2", "3", "4", "5", "6", "7", "8", "9">>

RECURSIVE DigitsValue(_)
DigitsValue(text) ==
    IF Len(text) = 0 THEN 0
    ELSE 10 * DigitsValue(SubSeq(text, 1, Len(text) - 1))
         + (ListIndex(Digits, text[Len(text)]) - 1)

\* float(text), for the texts made of the characters of the model: blanks
\* around the number are skipped, and a text that is not a run of digits
\* raises ValueError.
IsFloat(text) ==
    /\ Len(Strip(text)) > 0
    /\ \A i \in 1..Len(Strip(text)) : InList(Digits, Strip(text)[i])

ToFloat(text) == DigitsValue(Strip(text))

\* re.compile(text) raises re.error on an unbalanced parenthesis and on a
\* character set that is not closed.
RECURSIVE PatternScan(_, _, _, _)
PatternScan(text, index, depth, in_set) ==
    IF index > Len(text) THEN depth = 0 /\ ~in_set
    ELSE IF in_set
    THEN PatternScan(text, index + 1, depth, text[index] # "]")
    ELSE IF text[index] = "["
    THEN IF index < Len(text) /\ text[index + 1] = "]"
         THEN PatternScan(text, index + 2, depth, TRUE)
         ELSE PatternScan(text, index + 1, depth, TRUE)
    ELSE IF text[index] = "("
    THEN PatternScan(text, index + 1, depth + 1, FALSE)
    ELSE IF text[index] = ")"
    THEN depth > 0 /\ PatternScan(text, index + 1, depth - 1, FALSE)
    ELSE PatternScan(text, index + 1, depth, FALSE)

IsPattern(text) == PatternScan(text, 1, 0, FALSE)

\* [float(x) for x in splits]
RECURSIVE Floats(_)
Floats(splits) ==
    IF Len(splits) = 0 THEN <<>>
    ELSE <<Float(ToFloat(splits[1]))>> \o Floats(Tail(splits))

RECURSIVE Strs(_)
Strs(splits) ==
    IF Len(splits) = 0 THEN <<>>
    ELSE <<Str(splits[1])>> \o Strs(Tail(splits))

\* The list of an "in" (lines 275-280).
InValues(operand2) ==
    LET inner  == SubSeq(operand2, 2, Len(operand2) - 1)
        splits == do_split(inner, "", <<"'">>, <<"'">>, <<>>)
        items  == do_split(inner, ",", <<>>, <<>>, <<>>)
    IN  IF Len(splits) = 1 /\ \A i \in 1..Len(items) : IsFloat(items[i])
        THEN Floats(items)
        ELSE Strs(splits)

\* The bound of a native inclusive comparison.
LessOrEqualBoundNative(operand2) == ToFloat(operand2)

\* float(operand2)+1 and float(operand2)-1 (lines 267 and 269).
LessOrEqualBound(operand2) == ToFloat(operand2) + 1
GreaterOrEqualBound(operand2) == ToFloat(operand2) - 1

to_mongo_query_list(ops_list) ==
    IF ops_list.type = "dict" THEN Raises("TypeError", <<>>)
    ELSE IF Len(ops_list.items) # 3 THEN Raises("ValueError", <<>>)
    ELSE LET operation == ops_list.items[1]
             operand1  == ops_list.items[2][1]
             operand2  == ops_list.items[3][1]
         IN  IF operation = <<"e", "q">>
             THEN Returns(FieldIs(operand1, Str(operand2)))
             ELSE IF operation = <<"!", "e", "q">>
             THEN Returns(FieldOp(operand1, "$ne", Str(operand2)))
             ELSE IF operation = <<"%">>
             THEN Returns(FieldOp(operand1, "$regex", Str(operand2)))
             ELSE IF operation = <<"!", "%">>
             THEN IF IsPattern(operand2)
                  THEN Returns(FieldOp(operand1, "$not", Pattern(operand2)))
                  ELSE Raises("re.error", <<>>)
             ELSE IF operation = <<"i", "n">>
             THEN Returns(FieldOp(operand1, "$in", List(InValues(operand2))))
             ELSE IF ~IsFloat(operand2) THEN Raises("ValueError", <<>>)
             ELSE IF operation = <<"=">>
             THEN Returns(FieldIs(operand1, Float(ToFloat(operand2))))
             ELSE IF operation = <<"!", "=">>
             THEN Returns(FieldOp(operand1, "$ne", Float(ToFloat(operand2))))
             ELSE IF operation = <<">">>
             THEN Returns(FieldOp(operand1, "$gt", Float(ToFloat(operand2))))
             ELSE IF operation = <<"<">>
             THEN Returns(FieldOp(operand1, "$lt", Float(ToFloat(operand2))))
             ELSE IF operation = <<"<", "=">>
             THEN Returns(FieldOp(operand1, "$lt",
                                  Float(LessOrEqualBound(operand2))))
             ELSE Returns(FieldOp(operand1, "$gt",
                                  Float(GreaterOrEqualBound(operand2))))

RECURSIVE to_mongo_query_dict(_)
RECURSIVE QueryList(_)

\* The loops over ors and over ands: the list of the filters, or the first
\* exception.
QueryList(ops) ==
    IF Len(ops) = 0 THEN Returns(Junction("", <<>>))
    ELSE LET l == IF ops[1].type = "list"
                  THEN to_mongo_query_list(ops[1])
                  ELSE to_mongo_query_dict(ops[1])
             rest == QueryList(Tail(ops))
         IN  IF l.raise # "" THEN l
             ELSE IF rest.raise # "" THEN rest
             ELSE Returns(Junction("", <<l.mongo>> \o rest.mongo.list))

to_mongo_query_dict(ops_dict) ==
    LET list_ors  == QueryList(ops_dict.ors)
        list_ands == QueryList(ops_dict.ands)
    IN  IF list_ors.raise # "" THEN list_ors
        ELSE IF list_ands.raise # "" THEN list_ands
        ELSE IF Len(ops_dict.base) > 0
        THEN to_mongo_query_list(ops_dict.base[1])
        ELSE IF Len(ops_dict.ors) > 0
        THEN Returns(Junction("$or", list_ors.mongo.list \o list_ands.mongo.list))
        ELSE IF Len(ops_dict.ands) > 0
        THEN Returns(Junction("$and", list_ands.mongo.list))
        ELSE Returns(EmptyFilter)

transform_request(str_query) ==
    IF str_query = <<>> THEN Returns(EmptyFilter)
    ELSE LET splits == do_split(str_query, " ", <<"(", "[", "'">>,
                                <<")", "]", "'">>, <<"[">>)
             ops    == retrieve_ops_tree(splits, <<"(", "[", "'">>,
                                         <<")", "[", "'">>)
         IN  IF ops.raise # "" THEN Raises(ops.raise, ops.splits)
             ELSE to_mongo_query_dict(ops)

\* No query was handed to the compiler.
NoRequest == [str_query |-> <<>>, returned |-> FALSE, result |-> Returns(EmptyFilter)]

-----------------------------------------------------------------------------
\* The last call was none of the calls whose outcome is recorded.
NoOutcome == [call |-> None, args |-> <<>>, raised |-> FALSE,
              equal |-> FALSE, value |-> 0, moved |-> 0]

-----------------------------------------------------------------------------
\* The store and the handles after construction.
StoreInit ==
    /\ outcome = NoOutcome
    /\ db = [c \in Colls |-> <<>>]
    /\ meta = [x \in {RootId} |-> NewMeta]
    /\ handles = [s \in HandleIds |->
                    IF s = "A"
                    THEN MongoDictInit(RootId, <<>>, TRUE, FALSE, "MongoDict",
                                       [x \in {RootId} |-> NewMeta])
                    ELSE ClosedHandle]
    /\ bulk = NoBulk
    /\ writes = 0
    /\ forkedBy = [x \in ForkIds |-> None]

Init ==
    /\ StoreInit
    /\ request = NoRequest

\* MongoDict(original_dict_id=id)
Open(s, id) ==
    /\ ~handles[s].open
    /\ outcome' = NoOutcome
    /\ UNCHANGED request
    /\ meta' = EnsureMeta(meta, id)
    /\ handles' = [handles EXCEPT ![s] =
                      MongoDictInit(id, <<>>, TRUE, FALSE, "MongoDict", meta')]
    /\ UNCHANGED <<db, bulk, writes, forkedBy>>

\* The handle after the _update_from_latest() that opens a public operation.
Synced(s) == update_from_latest(handles[s], FALSE, meta)

\* d[key] = value: MongoDict.__setitem__ (ForkedMongoDict inherits it).
SetItem(s, k, v) ==
    /\ handles[s].open
    /\ outcome' = NoOutcome
    /\ UNCHANGED request
    /\ writes < MaxWrites
    /\ writes' = writes + 1
    /\ UNCHANGED <<bulk, forkedBy>>
    /\ LET h == Synced(s)
       IN  /\ db' = [db EXCEPT ![h.instance] = BasicSetItem(@, k, v)]
           /\ meta' = on_modified_callback(meta, h.id)
           /\ handles' = [handles EXCEPT ![s] = h]

\* del d[key]: the method is chosen by the class the handle has when the
\* statement starts, MongoDict.__delitem__ or ForkedMongoDict.__delitem__.
DelItem(s, k) ==
    /\ handles[s].open
    /\ outcome' = NoOutcome
    /\ UNCHANGED request
    /\ writes < MaxWrites
    /\ writes' = writes + 1
    /\ UNCHANGED <<bulk, forkedBy>>
    /\ LET h == Synced(s)
       IN  /\ db' = IF handles[s].cls = "ForkedMongoDict"
                    THEN [db EXCEPT ![ForkedDelTarget(h)] = ForkedDelItem(@, k)]
                    ELSE [db EXCEPT ![h.instance] = BasicDelItem(@, k)]
           /\ meta' = on_modified_callback(meta, h.id)
           /\ handles' = [handles EXCEPT ![s] = h]

\* A read (d[key], key in d, len(d), d.keys(), d.values(), d.items(), iter(d),
\* d(query)): each starts with _update_from_latest() and changes nothing else.
\* What the read returns is given by the Show operators below.
Read(s) ==
    /\ handles[s].open
    /\ outcome' = NoOutcome
    /\ UNCHANGED request
    /\ handles' = [handles EXCEPT ![s] = Synced(s)]
    /\ UNCHANGED <<db, meta, bulk, writes, forkedBy>>

\* The sealing step of fork(), lines 469-474.
Seal(m, h) ==
    IF m[h.id].modified
    THEN [m EXCEPT ![h.id].version = Append(@, h.version + 1),
                   ![h.id].modified = FALSE]
    ELSE m

\* A fork whose own collection is the collection of its father.
ForkedMongoDictInitOnFather(father, new_id, m) ==
    [MongoDictInit(new_id, <<>>, TRUE, FALSE, "ForkedMongoDict", m)
     EXCEPT !.father = <<CollName(father.id, father.version)>>
                       \o FatherChain(m, father.id, father.version),
            !.instance = CollName(father.id, father.version)]

\* A fork that reads the collection of its father only, not the collections
\* the father itself inherits from.
ForkedMongoDictInitNearest(father, new_id, m) ==
    [MongoDictInit(new_id, <<>>, TRUE, FALSE, "ForkedMongoDict", m)
     EXCEPT !.father = <<CollName(father.id, father.version)>>]

\* ForkedMongoDict.__init__(father, new_id): the new handle.
ForkedMongoDictInit(father, new_id, m) ==
    [MongoDictInit(new_id, <<>>, TRUE, FALSE, "ForkedMongoDict", m)
     EXCEPT !.father = <<CollName(father.id, father.version)>>
                       \o FatherChain(m, father.id, father.version)]

\* An ancestor linkage that names the version the sealing step has appended.
RecordAncestorSealed(m, new_id, father) ==
    [m EXCEPT ![new_id].ancestor_fork = father.id,
              ![new_id].ancestor_version = LatestVersion(m, father.id)]

\* ForkedMongoDict.__init__, lines 602-605: the ancestor linkage.
RecordAncestor(m, new_id, father) ==
    [m EXCEPT ![new_id].ancestor_fork = father.id,
              ![new_id].ancestor_version = father.version]

\* The next id not yet given to a dictionary.
IsNextFresh(m, id) ==
    \E i \in 1..Len(ForkIdSeq) :
        /\ ForkIdSeq[i] = id
        /\ id \notin DOMAIN m
        /\ \A j \in 1..(i - 1) : ForkIdSeq[j] \in DOMAIN m

\* fork(new_id), new_id a dictionary id that does not exist yet and that no
\* fork() was given before.
Fork(s, new_id) ==
    /\ handles[s].open
    /\ outcome' = NoOutcome
    /\ UNCHANGED request
    /\ new_id # Synced(s).id
    /\ IsNextFresh(meta, new_id)
    /\ forkedBy[new_id] = None
    /\ LET h1 == Synced(s)
           m1 == Seal(meta, h1)
           m2 == EnsureMeta(m1, new_id)
           m3 == RecordAncestor(m2, new_id, h1)
       IN  /\ meta' = m3
           /\ handles' = [handles EXCEPT
                            ![new_id] = ForkedMongoDictInit(h1, new_id, m2),
                            ![s] = load_version(h1, <<>>, m3)]
    /\ forkedBy' = [forkedBy EXCEPT ![new_id] = s]
    /\ UNCHANGED <<db, bulk, writes>>

\* _update_thread_checker: one run of the handle's periodic task.
update_thread_checker(h, m) ==
    IF h.immutable \/ ~h.allow_morph THEN h
    ELSE IF Len(m[h.id].version) > 0 /\ LatestVersion(m, h.id) # h.version
         THEN [h EXCEPT !.update_required = TRUE]
         ELSE h

Poll(s) ==
    /\ handles[s].open
    /\ outcome' = NoOutcome
    /\ UNCHANGED request
    /\ handles' = [handles EXCEPT ![s] = update_thread_checker(@, meta)]
    /\ UNCHANGED <<db, meta, bulk, writes, forkedBy>>

-----------------------------------------------------------------------------
(* The Bulk Writer.                                                        *)

\* BulkMongoDict.__init__ / BulkMongoDictForked
BulkInit(s, h, forked, buffer_size, do_upserts, m) ==
    [open |-> TRUE, owner |-> s, id |-> h.id, forked |-> forked,
     instance |-> MongoDictInit(h.id, <<h.version>>, FALSE, TRUE,
                                "BulkMongoDict", m).instance,
     buffer_size |-> buffer_size, do_upserts |-> do_upserts,
     operations |-> <<>>, raised |-> FALSE]

\* with d.bulk(buffer_size, do_upserts): MongoDict.bulk resyncs the handle and
\* builds a BulkMongoDict; ForkedMongoDict.bulk builds a BulkMongoDictForked
\* at the handle's cached version.
BulkEnter(s, n, u) ==
    /\ handles[s].open
    /\ outcome' = NoOutcome
    /\ UNCHANGED request
    /\ ~bulk.open
    /\ writes < MaxWrites
    /\ IF handles[s].cls = "ForkedMongoDict"
       THEN /\ bulk' = BulkInit(s, handles[s], TRUE, n, u, meta)
            /\ UNCHANGED handles
       ELSE /\ bulk' = BulkInit(s, Synced(s), FALSE, n, u, meta)
            /\ handles' = [handles EXCEPT ![s] = Synced(s)]
    /\ UNCHANGED <<db, meta, writes, forkedBy>>

\* One queued operation applied by bulk_write.
ApplyOp(coll, op) ==
    CASE op.type = "update"  -> UpdateOneSetValue(coll, op.key, op.value)
      [] op.type = "insert"  -> InsertOne(coll, op.key, op.value)
      [] op.type = "delete"  -> DeleteOne(coll, op.key)
      [] op.type = "removed" -> UpdateOneSetRemoved(coll, op.key)

RECURSIVE ApplyOps(_, _)
ApplyOps(coll, ops) ==
    IF ops = <<>> THEN coll ELSE ApplyOps(ApplyOp(coll, Head(ops)), Tail(ops))

\* The orders in which an unordered batch may be applied.
Orders(n) == {p \in [1..n -> 1..n] : \A i, j \in 1..n : i # j => p[i] # p[j]}

\* BulkMongoDict.commit with the operations ops, applied in the order p.
Commit(ops, p) ==
    IF Len(ops) > 0
    THEN /\ db' = [db EXCEPT ![bulk.instance] =
                      ApplyOps(@, [i \in 1..Len(ops) |-> ops[p[i]]])]
         /\ meta' = on_modified_callback(meta, bulk.id)
    ELSE UNCHANGED <<db, meta>>

\* A queue that commits as soon as the buffer holds buffer_size operations.
QueueAtSize(op) ==
    LET ops == Append(bulk.operations, op)
    IN  IF Len(ops) >= bulk.buffer_size
        THEN /\ \E p \in Orders(Len(ops)) : Commit(ops, p)
             /\ bulk' = [bulk EXCEPT !.operations = <<>>]
        ELSE /\ bulk' = [bulk EXCEPT !.operations = ops]
             /\ UNCHANGED <<db, meta>>

\* Queue one operation, commit when the buffer is over its size.
Queue(op) ==
    LET ops == Append(bulk.operations, op)
    IN  IF Len(ops) > bulk.buffer_size
        THEN /\ \E p \in Orders(Len(ops)) : Commit(ops, p)
             /\ bulk' = [bulk EXCEPT !.operations = <<>>]
        ELSE /\ bulk' = [bulk EXCEPT !.operations = ops]
             /\ UNCHANGED <<db, meta>>

\* BulkMongoDict.__setitem__
BulkSetItem(k, v) ==
    /\ bulk.open
    /\ outcome' = NoOutcome
    /\ UNCHANGED request
    /\ writes < MaxWrites
    /\ Queue([type |-> IF bulk.do_upserts THEN "update" ELSE "insert",
              key |-> k, value |-> v])
    /\ writes' = writes + 1
    /\ UNCHANGED <<handles, forkedBy>>

\* BulkMongoDict.__delitem__ / BulkMongoDictForked.__delitem__
BulkDelItem(k) ==
    /\ bulk.open
    /\ outcome' = NoOutcome
    /\ UNCHANGED request
    /\ writes < MaxWrites
    /\ Queue([type |-> IF bulk.forked THEN "removed" ELSE "delete",
              key |-> k, value |-> NoneValue])
    /\ writes' = writes + 1
    /\ UNCHANGED <<handles, forkedBy>>

\* Leaving the with block: ForkedMongoDict.bulk marks the dictionary modified,
\* then both commit what is queued.
BulkExit ==
    /\ bulk.open
    /\ outcome' = NoOutcome
    /\ UNCHANGED request
    /\ IF Len(bulk.operations) > 0
       THEN \E p \in Orders(Len(bulk.operations)) : Commit(bulk.operations, p)
       ELSE /\ meta' = IF bulk.forked THEN on_modified_callback(meta, bulk.id)
                       ELSE meta
            /\ UNCHANGED db
    /\ bulk' = NoBulk
    /\ UNCHANGED <<handles, writes, forkedBy>>

-----------------------------------------------------------------------------
(* What a handle returns.  Resolved*: the read methods of the class the     *)
(* handle has, on the handle as it is.  Show*: the public read as a client  *)
(* calls it now: the method is chosen by the class the handle has when the  *)
(* call starts, and it begins with _update_from_latest().                   *)

DispatchedGet(d, cls, h, k) ==
    IF cls = "ForkedMongoDict" THEN ForkedGetItem(d, HandleColls(h), k)
    ELSE BasicGetItem(d, h.instance, k)

DispatchedContains(d, cls, h, k) ==
    IF cls = "ForkedMongoDict" THEN ForkedContains(d, HandleColls(h), k)
    ELSE BasicContains(d, h.instance, k)

DispatchedLen(d, cls, h) ==
    IF cls = "ForkedMongoDict" THEN ForkedLen(d, HandleColls(h))
    ELSE BasicLen(d, h.instance)

\* MongoDict.keys lists self.__iter__(), which is ForkedMongoDict.__iter__,
\* the keys of self(""), once _update_from_latest() has morphed the handle.
DispatchedKeys(d, cls, h) ==
    IF cls = "ForkedMongoDict" THEN ForkedKeys(d, HandleColls(h))
    ELSE IF h.cls = "ForkedMongoDict"
         THEN SeqKeys(ForkedCall(d, HandleColls(h), ""))
         ELSE BasicKeys(d, h.instance)

\* What the read methods running as class cls return on the handle h.
DispatchedView(d, cls, h) ==
    [get      |-> [k \in Keys |-> DispatchedGet(d, cls, h, k)],
     contains |-> [k \in Keys |-> DispatchedContains(d, cls, h, k)],
     len      |-> DispatchedLen(d, cls, h),
     keys     |-> DispatchedKeys(d, cls, h)]

ResolvedGet(d, h, k) == DispatchedGet(d, h.cls, h, k)
ResolvedContains(d, h, k) == DispatchedContains(d, h.cls, h, k)
ResolvedLen(d, h) == DispatchedLen(d, h.cls, h)
ResolvedKeys(d, h) == DispatchedKeys(d, h.cls, h)
ResolvedView(d, h) == DispatchedView(d, h.cls, h)

\* MongoDict.__getitem__ / ForkedMongoDict.__getitem__
ShowGet(d, m, h, k) == DispatchedGet(d, h.cls, update_from_latest(h, FALSE, m), k)

\* MongoDict.__contains__ / ForkedMongoDict.__contains__
ShowContains(d, m, h, k) ==
    DispatchedContains(d, h.cls, update_from_latest(h, FALSE, m), k)

\* MongoDict.__len__ / ForkedMongoDict.__len__
ShowLen(d, m, h) == DispatchedLen(d, h.cls, update_from_latest(h, FALSE, m))

\* MongoDict.keys / ForkedMongoDict.keys, as a set.
ShowKeys(d, m, h) == DispatchedKeys(d, h.cls, update_from_latest(h, FALSE, m))

ShowView(d, m, h) ==
    LET h2 == update_from_latest(h, FALSE, m)
    IN  DispatchedView(d, h.cls, h2)

-----------------------------------------------------------------------------
Next ==
    \/ \E s \in ClientHandles : Open(s, RootId)
    \/ \E s \in HandleIds, k \in Keys, v \in Values : SetItem(s, k, v)
    \/ \E s \in HandleIds, k \in Keys : DelItem(s, k)
    \/ \E s \in HandleIds : Read(s)
    \/ \E s \in HandleIds, new_id \in ForkIds : Fork(s, new_id)
    \/ \E s \in HandleIds : Poll(s)
    \/ \E s \in HandleIds, n \in BufferSizes, u \in BOOLEAN : BulkEnter(s, n, u)
    \/ \E k \in Keys, v \in Values : BulkSetItem(k, v)
    \/ \E k \in Keys : BulkDelItem(k)
    \/ BulkExit

Spec == Init /\ [][Next]_vars
-----------------------------------------------------------------------------
(* Steps by which one handle writes: a direct set or delete, and the queue, *)
(* commit and exit steps of the Bulk Writer the handle opened.              *)

DirectWriteBy(s) ==
    \/ \E k \in Keys, v \in Values : SetItem(s, k, v)
    \/ \E k \in Keys : DelItem(s, k)

BulkWriteBy(s) ==
    /\ bulk.open
    /\ bulk.owner = s
    /\ \/ \E k \in Keys, v \in Values : BulkSetItem(k, v)
       \/ \E k \in Keys : BulkDelItem(k)
       \/ BulkExit

\* (Every such step counts a write or changes the Bulk Writer: tested first.)
WriteBy(s) ==
    /\ writes' # writes \/ bulk' # bulk
    /\ \/ bulk' = bulk /\ DirectWriteBy(s)
       \/ BulkWriteBy(s)

\* x is the dictionary the dictionary y was forked from.
IsFatherDict(m, x, y) == y \in DOMAIN m /\ m[y].ancestor_fork = x

\* x is a father, grandfather, ... of the dictionary y.
RECURSIVE IsAncestorDict(_, _, _)
IsAncestorDict(m, x, y) ==
    /\ y \in DOMAIN m
    /\ m[y].ancestor_fork # None
    /\ (m[y].ancestor_fork = x \/ IsAncestorDict(m, x, m[y].ancestor_fork))

\* C1: fork isolation, fork to father: a set, a delete or a bulk operation
\* made through a handle of a fork leaves unchanged what every handle of its
\* father dictionary shows (get and contains of every key, length, keys).
C1_ForkLeavesFather ==
    [][\A s \in HandleIds :
          (/\ handles[s].open
           /\ meta[handles[s].id].ancestor_fork # None
           /\ WriteBy(s))
          => \A t \in HandleIds :
                (handles[t].open /\ IsFatherDict(meta, handles[t].id, handles[s].id))
                => ShowView(db', meta', handles'[t]) = ShowView(db, meta, handles[t])]_vars

\* C1 witness: a fork has deleted a key of its father: the father still has
\* it, with length 1, and the fork has length 0 and raises KeyError.
C1_Witness ==
    \E s, t \in HandleIds, k \in Keys :
        /\ handles[s].open /\ handles[t].open
        /\ IsFatherDict(meta, handles[t].id, handles[s].id)
        /\ find_one(db[handles[s].instance], k) = Tombstone(k)
        /\ ShowGet(db, meta, handles[t], k).ok
        /\ ShowLen(db, meta, handles[t]) = 1
        /\ ~ShowGet(db, meta, handles[s], k).ok
        /\ ShowLen(db, meta, handles[s]) = 0

\* C2 (as claimed): once s.fork(n) has returned, no set, delete or bulk write
\* made through s changes what the fork n shows.
C2_OriginalLeavesFork ==
    [][\A s \in HandleIds :
          (/\ handles[s].open
           /\ \E n \in ForkIds : forkedBy[n] = s
           /\ WriteBy(s))
          => \A n \in ForkIds :
                (forkedBy[n] = s /\ handles[n].open)
                => ShowView(db', meta', handles'[n]) = ShowView(db, meta, handles[n])]_vars

\* C3: fork-of-fork isolation: in a chain original -> fork1 -> fork2, a set,
\* a delete or a bulk operation on fork2 leaves unchanged what the handles of
\* fork1 and of original show.
C3_ForkOfForkLeavesAncestors ==
    [][\A s \in HandleIds :
          (/\ handles[s].open
           /\ meta[handles[s].id].ancestor_fork # None
           /\ meta[meta[handles[s].id].ancestor_fork].ancestor_fork # None
           /\ WriteBy(s))
          => \A t \in HandleIds :
                (handles[t].open /\ IsAncestorDict(meta, handles[t].id, handles[s].id))
                => ShowView(db', meta', handles'[t]) = ShowView(db, meta, handles[t])]_vars

\* C3 witness: fork2 has deleted a key that fork1 added itself; fork1 still
\* has it and the original never had it.
C3_Witness ==
    \E s, t, u \in HandleIds, k \in Keys :
        /\ handles[s].open /\ handles[t].open /\ handles[u].open
        /\ IsFatherDict(meta, handles[t].id, handles[s].id)
        /\ IsFatherDict(meta, handles[u].id, handles[t].id)
        /\ find_one(db[handles[s].instance], k) = Tombstone(k)
        /\ ~ShowGet(db, meta, handles[s], k).ok
        /\ ShowGet(db, meta, handles[t], k).ok
        /\ ~ShowGet(db, meta, handles[u], k).ok

-----------------------------------------------------------------------------
\* The collections of the dictionary id: its latest version, the versions
\* below it and the snapshots of its ancestors.
DictColls(m, id) ==
    <<CollName(id, LatestVersion(m, id))>> \o FatherChain(m, id, LatestVersion(m, id))

\* No collection of the dictionary of s or of its ancestors, and none the
\* handle s reads, holds an entry for k.
NeverSet(s, k) ==
    /\ \A i \in 1..Len(DictColls(meta, handles[s].id)) :
          Indexes(db[DictColls(meta, handles[s].id)[i]], k) = {}
    /\ \A i \in 1..Len(HandleColls(handles[s])) :
          Indexes(db[HandleColls(handles[s])[i]], k) = {}

\* C4: round trip: on every handle, right after d[k] = v the get of k
\* returns v and k is contained, whatever held k before; and the get of a key
\* never set in the dictionary or its ancestors raises KeyError.
C4_SetThenGet ==
    /\ [](\A s \in HandleIds, k \in Keys :
            (handles[s].open /\ NeverSet(s, k))
            => ~ShowGet(db, meta, handles[s], k).ok)
    /\ [][(writes' # writes /\ bulk' = bulk)
          => \A s \in HandleIds, k \in Keys, v \in Values :
                SetItem(s, k, v)
                => /\ ShowGet(db', meta', handles'[s], k) = Found(v)
                   /\ ShowContains(db', meta', handles'[s], k)]_vars

\* C4 witness: a fork has set a key over another value of its father and
\* reads back what it set, while the other key, never set, raises KeyError.
C4_Witness ==
    \E s, t \in HandleIds, k \in Keys, v \in Values :
        /\ handles[s].open /\ handles[t].open
        /\ IsFatherDict(meta, handles[t].id, handles[s].id)
        /\ find_one(db[handles[s].instance], k) = Doc(k, v)
        /\ ShowGet(db, meta, handles[t], k).ok
        /\ ShowGet(db, meta, handles[t], k) # Found(v)
        /\ ShowGet(db, meta, handles[s], k) = Found(v)
        /\ ShowContains(db, meta, handles[s], k)
        /\ \E j \in Keys : j # k /\ ~ShowGet(db, meta, handles[s], j).ok

\* A public operation of the handle s.
PublicOp(s) ==
    \/ Read(s)
    \/ \E k \in Keys, v \in Values : SetItem(s, k, v)
    \/ \E k \in Keys : DelItem(s, k)
    \/ \E new_id \in ForkIds : Fork(s, new_id)
    \/ \E n \in BufferSizes, u \in BOOLEAN : BulkEnter(s, n, u)

\* C5 (as claimed): once the monitor of a handle has seen a newer version
\* (update_required), the next public operation of the handle re-resolves it:
\* afterwards the handle is at the latest version of the Metadata Record, the
\* flag is cleared and the handle is a delta overlay.
C5_NextOperationResolves ==
    [][\A s \in HandleIds :
          (handles[s].open /\ handles[s].update_required /\ PublicOp(s))
          => /\ handles'[s].version = LatestVersion(meta', handles[s].id)
             /\ ~handles'[s].update_required
             /\ handles'[s].cls = "ForkedMongoDict"]_vars

\* The version v of the dictionary id is sealed: a fork is pinned at it and
\* a later version of id is recorded.
Sealed(m, c) ==
    /\ c[1] \in DOMAIN m
    /\ c[2] < LatestVersion(m, c[1])
    /\ \E n \in DOMAIN m : m[n].ancestor_fork = c[1] /\ m[n].ancestor_version = c[2]

\* C6 (as claimed): no step adds, changes or removes an entry in the
\* collection of a sealed version.
C6_SealedImmutable ==
    [][\A c \in Colls : Sealed(meta, c) => db'[c] = db[c]]_vars

C8_ForkKeepsOriginal ==
    [][forkedBy' # forkedBy
       => \A s \in HandleIds, new_id \in ForkIds :
             Fork(s, new_id)
             => ResolvedView(db', handles'[s]) = ResolvedView(db, Synced(s))]_vars

\* The chain colls without its first i - 1 collections.
Suffix(colls, i) == SubSeq(colls, i, Len(colls))

\* What the father of the overlay on colls returns for k.
FatherGetItem(d, colls, k) ==
    IF Len(colls) = 2 THEN BasicGetItem(d, colls[2], k)
    ELSE ForkedGetItem(d, Tail(colls), k)

\* C9: read resolution on a delta overlay, at every level of the chain of
\* every overlay handle: a local tombstone makes get raise KeyError, a local
\* live entry is returned, without local entry get is what the father
\* returns; and contains is true exactly when get returns a value.
C9_OverlayReadResolution ==
    \A s \in HandleIds, k \in Keys :
        (handles[s].open /\ handles[s].cls = "ForkedMongoDict")
        => \A i \in 1..(Len(HandleColls(Synced(s))) - 1) :
              LET colls == Suffix(HandleColls(Synced(s)), i)
                  local == find_one(db[colls[1]], k)
                  got   == ForkedGetItem(db, colls, k)
              IN  /\ (local # NoDoc /\ local.removed) => got = Raised
                  /\ (local # NoDoc /\ ~local.removed) => got = Found(local.value)
                  /\ local = NoDoc => got = FatherGetItem(db, colls, k)
                  /\ ForkedContains(db, colls, k) <=> got.ok

\* C9 witness: a fork holds a tombstone for a key that is live in its
\* father and raises KeyError for it, and has no entry for another key,
\* which the father lacks too.
C9_Witness ==
    \E s \in HandleIds, k, j \in Keys :
        /\ handles[s].open /\ handles[s].cls = "ForkedMongoDict"
        /\ find_one(db[handles[s].instance], k) = Tombstone(k)
        /\ FatherGetItem(db, HandleColls(handles[s]), k).ok
        /\ ~ShowGet(db, meta, handles[s], k).ok
        /\ ~ShowContains(db, meta, handles[s], k)
        /\ j # k
        /\ find_one(db[handles[s].instance], j) = NoDoc
        /\ ~ShowGet(db, meta, handles[s], j).ok

\* C10 (as claimed): a query on a Forked Dictionary yields each key at most
\* once, and every entry it yields carries the value get returns for its key
\* on the fork.
C10_QueryMostDerived ==
    \A s \in HandleIds, q \in QueryTexts :
        (handles[s].open /\ handles[s].cls = "ForkedMongoDict")
        => LET colls  == HandleColls(Synced(s))
               result == ForkedCall(db, colls, q)
           IN  /\ \A i, j \in 1..Len(result) :
                     i # j => result[i].key # result[j].key
               /\ \A i \in 1..Len(result) :
                     ForkedGetItem(db, colls, result[i].key) = Found(result[i].value)
-----------------------------------------------------------------------------
\* What the father of the overlay on colls answers to contains and len.
FatherContains(d, colls, k) ==
    IF Len(colls) = 2 THEN BasicContains(d, colls[2], k)
    ELSE ForkedContains(d, Tail(colls), k)

FatherLen(d, colls) ==
    IF Len(colls) = 2 THEN BasicLen(d, colls[2]) ELSE ForkedLen(d, Tail(colls))

\* The keys with a local tombstone, and the keys with a local live entry.
LocalRemoved(d, c) == SeqKeys(SelectSeq(d[c], LAMBDA x : x.removed))
LocalLive(d, c) == SeqKeys(SelectSeq(d[c], LAMBDA x : ~x.removed))

\* C11 (as claimed): the length of a Forked Dictionary is the length of its
\* father, minus the number of locally tombstoned keys that are present in
\* the father (floored at 0), plus the number of locally live keys.
C11_ForkedLength ==
    \A s \in HandleIds :
        (handles[s].open /\ handles[s].cls = "ForkedMongoDict")
        => LET colls == HandleColls(Synced(s))
           IN  ForkedLen(db, colls) =
                   Max(0, FatherLen(db, colls)
                          - Cardinality({k \in LocalRemoved(db, colls[1]) :
                                            FatherContains(db, colls, k)}))
                   + Cardinality(LocalLive(db, colls[1]))
-----------------------------------------------------------------------------
\* BasicMongoDict.keys: list(self.__iter__()), one key for each document.
BasicKeysList(d, c) == [i \in 1..Len(d[c]) |-> d[c][i].key]

\* A list that iterates over a set: each element once, in some order.
RECURSIVE ListOfSet(_)
ListOfSet(S) ==
    IF S = {} THEN <<>>
    ELSE LET x == CHOOSE y \in S : TRUE IN <<x>> \o ListOfSet(S \ {x})

SetOfList(l) == {l[i] : i \in 1..Len(l)}

\* The list self._fork_father.keys() returns.
FatherKeysList(d, colls) ==
    IF Len(colls) = 2 THEN BasicKeysList(d, colls[2])
    ELSE ListOfSet(ForkedKeys(d, Tail(colls)))

\* ForkedMongoDict.keys: the list returned, built from the set total_keys.
ForkedKeysList(d, colls) == ListOfSet(ForkedKeys(d, colls))

\* C12: at every level of the chain of every overlay handle, keys() lists no
\* key twice and lists exactly the keys of the father and the local keys
\* without the locally tombstoned ones; and a key is listed exactly when
\* contains(key) is true.
C12_ForkedKeys ==
    \A s \in HandleIds :
        (handles[s].open /\ handles[s].cls = "ForkedMongoDict")
        => \A i \in 1..(Len(HandleColls(Synced(s))) - 1) :
              LET colls == Suffix(HandleColls(Synced(s)), i)
                  keys  == ForkedKeysList(db, colls)
              IN  /\ \A x, y \in 1..Len(keys) : x # y => keys[x] # keys[y]
                  /\ SetOfList(keys) =
                        (SetOfList(FatherKeysList(db, colls)) \cup SeqKeys(db[colls[1]]))
                        \ LocalRemoved(db, colls[1])
                  /\ \A k \in Keys :
                        k \in SetOfList(keys) <=> ForkedContains(db, colls, k)

\* C12 witness: a fork holds a tombstone for a key its father lists: the
\* fork's keys() does not list the key and the fork does not contain it.
C12_Witness ==
    \E s \in HandleIds, k \in Keys :
        /\ handles[s].open /\ handles[s].cls = "ForkedMongoDict"
        /\ find_one(db[handles[s].instance], k) = Tombstone(k)
        /\ k \in SetOfList(FatherKeysList(db, HandleColls(handles[s])))
        /\ k \notin ShowKeys(db, meta, handles[s])
        /\ ~ShowContains(db, meta, handles[s], k)
-----------------------------------------------------------------------------
\* The step writes the operations ops, all of them and nothing else, to the
\* collection of the Bulk Writer, in one of the orders of an unordered batch.
Flushed(ops) ==
    \E p \in Orders(Len(ops)) :
        db' = [db EXCEPT ![bulk.instance] =
                  ApplyOps(@, [i \in 1..Len(ops) |-> ops[p[i]]])]

\* The operation a set, and a delete, of the Bulk Writer appends.
SetOperation(k, v) ==
    [type |-> IF bulk.do_upserts THEN "update" ELSE "insert",
     key |-> k, value |-> v]

DelOperation(k) ==
    [type |-> IF bulk.forked THEN "removed" ELSE "delete",
     key |-> k, value |-> NoneValue]

\* What the claim says of the step that queues op.
ThresholdStep(op) ==
    LET ops == Append(bulk.operations, op)
    IN  /\ Len(ops) <= bulk.buffer_size
           => /\ db' = db /\ meta' = meta
              /\ bulk'.operations = ops
        /\ Len(ops) > bulk.buffer_size
           => Flushed(ops) /\ bulk'.operations = <<>>

\* C13: bulk threshold: a set or a delete of a Bulk Writer with buffer_size N
\* that brings the buffer to at most N operations queues the operation and
\* writes nothing to the backend; the one that brings it over N commits the
\* whole buffer and empties it; so the buffer never holds more than N
\* operations once a set or delete has returned; and leaving the scope (the
\* one step that closes the Bulk Writer) commits what is queued and leaves
\* nothing queued.
C13_BulkThreshold ==
    /\ [](bulk.open => Len(bulk.operations) <= bulk.buffer_size)
    /\ [][(bulk.open /\ writes' # writes)
          => /\ \A k \in Keys, v \in Values :
                   BulkSetItem(k, v) => ThresholdStep(SetOperation(k, v))
             /\ \A k \in Keys :
                   BulkDelItem(k) => ThresholdStep(DelOperation(k))]_vars
    /\ [][(bulk.open /\ bulk' = NoBulk) => Flushed(bulk.operations)]_vars

\* C13 witness: the second insert of a Bulk Writer with buffer_size 1 has
\* committed both queued inserts: the collection stores the two documents and
\* the buffer of the open Bulk Writer is empty.
C13_Witness ==
    /\ bulk.open
    /\ bulk.buffer_size = 1
    /\ ~bulk.do_upserts
    /\ bulk.operations = <<>>
    /\ writes = 2
    /\ Len(db[bulk.instance]) = 2
    /\ db[bulk.instance][1].key = db[bulk.instance][2].key
-----------------------------------------------------------------------------
(* Bulk commits that fail: bulk_write raises BulkWriteError, commit prints   *)
(* it and re-raises; the error leaves the with block and ends the scope.    *)

\* The operations of ops at the positions in applied, in the order of ops.
RECURSIVE Pick(_, _, _)
Pick(ops, applied, i) ==
    IF i > Len(ops) THEN <<>>
    ELSE (IF i \in applied THEN <<ops[i]>> ELSE <<>>) \o Pick(ops, applied, i + 1)

\* bulk_write(ops, ordered=False) raising BulkWriteError: every operation
\* was tried, those at the positions in applied were written, at least one
\* failed.
FailedBulkWrite(ops) ==
    \E applied \in (SUBSET (1..Len(ops))) \ {1..Len(ops)} :
        Flushed(Pick(ops, applied, 1))

\* BulkMongoDict.commit when bulk_write raises: lines 813-814 are skipped.
FailedCommit(ops) ==
    /\ FailedBulkWrite(ops)
    /\ meta' = meta

\* The scope left by the error.
Aborted == [NoBulk EXCEPT !.raised = TRUE]

\* BulkMongoDict.__setitem__ whose commit raises.
BulkSetItemFails(k, v) ==
    /\ bulk.open
    /\ outcome' = NoOutcome
    /\ UNCHANGED request
    /\ writes < MaxWrites
    /\ Len(bulk.operations) + 1 > bulk.buffer_size
    /\ FailedCommit(Append(bulk.operations, SetOperation(k, v)))
    /\ bulk' = Aborted
    /\ writes' = writes + 1
    /\ UNCHANGED <<handles, forkedBy>>

\* BulkMongoDict.__delitem__ / BulkMongoDictForked.__delitem__ whose commit
\* raises.
BulkDelItemFails(k) ==
    /\ bulk.open
    /\ outcome' = NoOutcome
    /\ UNCHANGED request
    /\ writes < MaxWrites
    /\ Len(bulk.operations) + 1 > bulk.buffer_size
    /\ FailedCommit(Append(bulk.operations, DelOperation(k)))
    /\ bulk' = Aborted
    /\ writes' = writes + 1
    /\ UNCHANGED <<handles, forkedBy>>

\* Leaving the with block with a commit that raises: ForkedMongoDict.bulk
\* has marked the dictionary modified (line 712) before it calls commit.
BulkExitFails ==
    /\ bulk.open
    /\ outcome' = NoOutcome
    /\ UNCHANGED request
    /\ Len(bulk.operations) > 0
    /\ IF bulk.forked
       THEN /\ FailedBulkWrite(bulk.operations)
            /\ meta' = on_modified_callback(meta, bulk.id)
       ELSE FailedCommit(bulk.operations)
    /\ bulk' = Aborted
    /\ UNCHANGED <<handles, writes, forkedBy>>

NextWithFailures ==
    \/ Next
    \/ \E k \in Keys, v \in Values : BulkSetItemFails(k, v)
    \/ \E k \in Keys : BulkDelItemFails(k)
    \/ BulkExitFails

SpecWithFailures == Init /\ [][NextWithFailures]_vars

\* C14 (as claimed): a commit of the Bulk Writer that fails surfaces the
\* error, changes no collection but the writer's own and leaves the Metadata
\* Record as it was; a commit that succeeds leaves the dictionary marked
\* modified.
C14_BulkCommitFailure ==
    [][bulk.open
       => /\ bulk'.raised
             => /\ meta' = meta
                /\ \A c \in Colls \ {bulk.instance} : db'[c] = db[c]
          /\ (~bulk'.raised /\ bulk' # bulk /\ db' # db)
             => meta'[bulk.id].modified]_vars
-----------------------------------------------------------------------------
\* The batch ops holds a delete of k and no other operation on k.
DeletesOnly(ops, k) ==
    /\ \E i \in 1..Len(ops) : ops[i].key = k
    /\ \A i \in 1..Len(ops) :
          ops[i].key = k => ops[i].type \in {"delete", "removed"}

\* The writer was opened on a root dictionary: version 0 of a dictionary
\* that was not forked from another.
RootWriter ==
    /\ ~bulk.forked
    /\ bulk.instance = CollName(bulk.id, 0)
    /\ meta[bulk.id].ancestor_fork = None

\* What the claim says of the step that commits the batch ops: of the writer
\* of a Forked Dictionary (a BulkMongoDictForked, opened by the handle
\* bulk.owner), and of the writer of a root dictionary.
DeleteCommitted(ops) ==
    \A k \in Keys :
        DeletesOnly(ops, k)
        => /\ bulk.forked
              => /\ find_one(db'[bulk.instance], k) = Tombstone(k)
                 /\ ~ShowGet(db', meta', handles'[bulk.owner], k).ok
                 /\ ~ShowContains(db', meta', handles'[bulk.owner], k)
                 /\ \A i \in 1..Len(handles'[bulk.owner].father) :
                       db'[handles'[bulk.owner].father[i]]
                           = db[handles'[bulk.owner].father[i]]
           /\ RootWriter => Indexes(db'[bulk.instance], k) = {}

\* C15 (as claimed): a delete committed by the Bulk Writer of a Forked
\* Dictionary leaves a tombstone for the key in the fork's own collection,
\* get on the fork then raises KeyError and contains is false, and no
\* collection of the father is changed; a delete committed by the Bulk
\* Writer of a root dictionary removes the entry from the root collection.
C15_BulkDelete ==
    [][(bulk.open /\ bulk' # bulk)
       => /\ (writes' # writes /\ Len(bulk.operations) + 1 > bulk.buffer_size)
             => /\ \A k \in Keys, v \in Values :
                      BulkSetItem(k, v)
                      => DeleteCommitted(Append(bulk.operations, SetOperation(k, v)))
                /\ \A k \in Keys :
                      BulkDelItem(k)
                      => DeleteCommitted(Append(bulk.operations, DelOperation(k)))
          /\ bulk' = NoBulk => DeleteCommitted(bulk.operations)]_vars
-----------------------------------------------------------------------------
\* The batch ops of an insert-only writer holds an insert whose key has an
\* entry in the target collection or is inserted twice in the batch.
InsertCollides(ops) ==
    \E i \in 1..Len(ops) :
        /\ ops[i].type = "insert"
        /\ \/ Indexes(db[bulk.instance], ops[i].key) # {}
           \/ \E j \in 1..Len(ops) :
                 j # i /\ ops[j].type = "insert" /\ ops[j].key = ops[i].key

\* C16 (as claimed): the commit of an insert-only Bulk Writer whose batch
\* holds a set of a key that already has an entry in the target collection,
\* or that is queued twice in the batch, fails: the error is surfaced to the
\* caller.
C16_InsertOnlyCollision ==
    [][(bulk.open /\ ~bulk.do_upserts /\ db' # db)
       => /\ (writes' # writes /\ Len(bulk.operations) + 1 > bulk.buffer_size)
             => /\ \A k \in Keys, v \in Values :
                      (/\ InsertCollides(Append(bulk.operations, SetOperation(k, v)))
                       /\ BulkSetItem(k, v))
                      => bulk'.raised
                /\ \A k \in Keys :
                      (/\ InsertCollides(Append(bulk.operations, DelOperation(k)))
                       /\ BulkDelItem(k))
                      => bulk'.raised
          /\ (~bulk'.open /\ InsertCollides(bulk.operations) /\ BulkExit)
             => bulk'.raised]_vars
-----------------------------------------------------------------------------
(* fork() onto the handle's own dict_id.                                    *)

\* A fork that seals the current version before it tests new_id.
ForkOwnIdMetaSealed(m, h) == Seal(m, h)

\* The metadata after fork(new_id) has raised at lines 462-463: the record is
\* read at line 468 only.
ForkOwnIdMeta(m, h) == m

\* fork(new_id), new_id the handle's own dict_id: Exception("Fork cannot
\* override father's ID"), raised after _update_from_latest().
ForkOwnId(s) ==
    /\ handles[s].open
    /\ outcome' = [NoOutcome EXCEPT !.call = "fork", !.raised = TRUE]
    /\ LET h1 == Synced(s)
       IN  /\ handles' = [handles EXCEPT ![s] = h1]
           /\ meta' = ForkOwnIdMeta(meta, h1)
    /\ UNCHANGED <<db, bulk, writes, forkedBy, request>>

\* The operations of the handles, without Bulk Writer scopes.
HandleNext ==
    \/ \E s \in ClientHandles : Open(s, RootId)
    \/ \E s \in HandleIds, k \in Keys, v \in Values : SetItem(s, k, v)
    \/ \E s \in HandleIds, k \in Keys : DelItem(s, k)
    \/ \E s \in HandleIds : Read(s)
    \/ \E s \in HandleIds, new_id \in ForkIds : Fork(s, new_id)
    \/ \E s \in HandleIds : Poll(s)

NextWithForkOwnId ==
    \/ HandleNext
    \/ \E s \in HandleIds : ForkOwnId(s)

SpecWithForkOwnId == Init /\ [][NextWithForkOwnId]_vars

\* C17: a fork(new_id) with new_id the handle's own dict_id raises and
\* changes no state of the backend: every Metadata Record (versions, modified
\* flag, ancestor linkage) and every collection is as before, no Metadata
\* Record is added, no handle of a new dictionary is opened and no fork is
\* recorded.
C17_ForkOwnIdMutatesNothing ==
    [][outcome'.call = "fork"
       => /\ outcome'.raised
          /\ meta' = meta
          /\ db' = db
          /\ forkedBy' = forkedBy
          /\ \A n \in HandleIds : handles'[n].open = handles[n].open]_vars

\* C17 witness: a fork onto the own id has just been rejected while the
\* dictionary of every open handle holds entries and is marked modified, so
\* that a fork that went on would have sealed a version.
C17_Witness ==
    /\ outcome.call = "fork"
    /\ outcome.raised
    /\ \A s \in HandleIds :
          handles[s].open
          => /\ meta[handles[s].id].modified
             /\ db[handles[s].instance] # <<>>
             /\ meta[handles[s].id].version = <<>>
-----------------------------------------------------------------------------
\* C18 (as claimed): del d[k] of a key the handle does not contain raises
\* KeyError, as d[k] does: the call surfaces an error and writes nothing, on
\* root handles and on delta-overlay handles.
C18_DeleteAbsentRaises ==
    [][(writes' # writes /\ bulk' = bulk)
       => \A s \in HandleIds, k \in Keys :
             (/\ handles[s].open
              /\ ~ShowGet(db, meta, handles[s], k).ok
              /\ ~ShowContains(db, meta, handles[s], k)
              /\ DelItem(s, k))
             => outcome'.raised /\ db' = db]_vars
-----------------------------------------------------------------------------
(* Handle equality.                                                         *)

\* A comparison that re-resolves a handle only when its monitor has flagged
\* it.
EqResolveFlagged(h, m) == update_from_latest(h, FALSE, m)

\* __eq__: self._update_from_latest(force_update=True), for self and other.
EqResolve(h, m) == update_from_latest(h, TRUE, m)

\* handles[s] == handles[t]; moved counts the handles the comparison moved to
\* another version.
Eq(s, t) ==
    /\ handles[s].open /\ handles[t].open
    /\ LET self  == EqResolve(handles[s], meta)
           other == EqResolve(handles[t], meta)
       IN  /\ handles' = [handles EXCEPT ![s] = self, ![t] = other]
           /\ outcome' = [NoOutcome EXCEPT
                            !.call = "eq", !.args = <<s, t>>,
                            !.equal = (self.id = other.id /\ self.version = other.version),
                            !.moved = (IF self.version # handles[s].version THEN 1 ELSE 0)
                                      + (IF other.version # handles[t].version THEN 1 ELSE 0)]
    /\ UNCHANGED <<db, meta, bulk, writes, forkedBy, request>>

NextWithEq ==
    \/ HandleNext
    \/ \E s, t \in HandleIds : Eq(s, t)

SpecWithEq == Init /\ [][NextWithEq]_vars

\* C19: a comparison of two handles leaves each (non-immutable) handle at
\* the latest version of its Metadata Record and returns true exactly when
\* the two then have the same dict_id and the same version; so two handles
\* open on the same dict_id compare equal, whatever versions they were at.
C19_HandleEquality ==
    [][outcome'.call = "eq"
       => LET s == outcome'.args[1]
              t == outcome'.args[2]
          IN  /\ handles'[s].version = LatestVersion(meta, handles[s].id)
              /\ handles'[t].version = LatestVersion(meta, handles[t].id)
              /\ outcome'.equal <=> /\ handles'[s].id = handles'[t].id
                                    /\ handles'[s].version = handles'[t].version
              /\ handles[s].id = handles[t].id => outcome'.equal]_vars

\* C19 witness: two handles of one dictionary have compared equal although
\* one of them had forked the dictionary and the comparison had to move the
\* other one to the new version.
C19_Witness ==
    /\ outcome.call = "eq"
    /\ outcome.equal
    /\ outcome.moved = 1
    /\ outcome.args[1] # outcome.args[2]
    /\ handles[outcome.args[1]].id = handles[outcome.args[2]].id
    /\ handles[outcome.args[1]].version > 0
    /\ \E n \in ForkIds : forkedBy[n] = outcome.args[1]
-----------------------------------------------------------------------------
(* The Dropper.  It is run, as in the tearDown of the tests, on a           *)
(* dictionary that no open handle uses, as its own dictionary or as one of  *)
(* its fathers.  Handles are opened on the root dictionary and got from     *)
(* fork(), as in the other specifications.                                  *)

\* A handle is discarded by its client.
Close(s) ==
    /\ handles[s].open
    /\ outcome' = NoOutcome
    /\ UNCHANGED request
    /\ handles' = [handles EXCEPT ![s] = ClosedHandle]
    /\ UNCHANGED <<db, meta, bulk, writes, forkedBy>>

NoHandleUses(id) ==
    \A s \in HandleIds :
        handles[s].open
        => /\ handles[s].id # id
           /\ \A i \in 1..Len(handles[s].father) : handles[s].father[i][1] # id

\* A drop that removes the collection of version 0 only.
DroppedCollsBaseOnly(id, versions) == {CollName(id, 0)}

\* drop_dict(dict_id, remove_all_versions=True): the collections dropped,
\* "{dict_id}v{version}" for the versions of the record, and dict_id.
DroppedColls(id, versions) ==
    {CollName(id, versions[i]) : i \in 1..Len(versions)} \cup {CollName(id, 0)}

\* The number of entries in the collections of C.
RECURSIVE Entries(_, _)
Entries(d, C) ==
    IF C = {} THEN 0
    ELSE LET c == CHOOSE x \in C : TRUE IN Len(d[c]) + Entries(d, C \ {c})

\* DictDropper.drop_dict(dict_id), dict_id a dictionary that has a record.
Drop(id) ==
    /\ id \in DOMAIN meta
    /\ NoHandleUses(id)
    /\ outcome' = [NoOutcome EXCEPT
                     !.call = "drop", !.args = <<id>>,
                     !.value = Len(meta[id].version) + 1,
                     !.moved = Entries(db, {c \in Colls : c[1] = id})]
    /\ db' = [c \in Colls |->
                IF c \in DroppedColls(id, meta[id].version) THEN <<>> ELSE db[c]]
    /\ meta' = [x \in DOMAIN meta \ {id} |-> meta[x]]
    /\ UNCHANGED <<handles, bulk, writes, forkedBy, request>>

NextWithDropper ==
    \/ HandleNext
    \/ \E s \in HandleIds : Close(s)
    \/ \E id \in DictIds : Drop(id)

SpecWithDropper == Init /\ [][NextWithDropper]_vars

\* C20: a drop of dict_id with all its versions removes the Metadata Record
\* of dict_id and leaves no entry in the collection of version 0 nor in the
\* collection of any other version of dict_id; and a handle opened on
\* dict_id right afterwards is a root dictionary at version 0 that is empty.
C20_DropRemovesAll ==
    [][outcome'.call = "drop"
       => LET id == outcome'.args[1]
              h  == MongoDictInit(id, <<>>, TRUE, FALSE, "MongoDict",
                                  EnsureMeta(meta', id))
          IN  /\ id \notin DOMAIN meta'
              /\ \A v \in 0..MaxVersion : db'[CollName(id, v)] = <<>>
              /\ h.version = 0
              /\ h.cls = "MongoDict"
              /\ ResolvedLen(db', h) = 0
              /\ ResolvedKeys(db', h) = {}
              /\ \A k \in Keys : ~ResolvedGet(db', h, k).ok]_vars

\* C20 witness: a dictionary with one sealed version and a fork has been
\* dropped, and the two entries it held went with it.
C20_Witness ==
    /\ outcome.call = "drop"
    /\ outcome.value = 2
    /\ outcome.moved = 2
    /\ outcome.args[1] \notin DOMAIN meta
    /\ \A c \in Colls : db[c] = <<>>
    /\ \E n \in DOMAIN meta : meta[n].ancestor_fork = outcome.args[1]

-----------------------------------------------------------------------------
(* The queries handed to the compiler: every text below is a run of words   *)
(* joined by single blanks.                                                 *)

\* Field paths.
Fields == {<<"f">>, <<"v", ".", "h">>}

\* Numeric operands, with the number each one writes.
Numbers ==
    {[text |-> <<"0">>, value |-> 0], [text |-> <<"3">>, value |-> 3],
     [text |-> <<"3", "3">>, value |-> 33]}

NumberTexts == {n.text : n \in Numbers}

\* Operands that are not numbers: a word, a quoted word, a quoted text with
\* a blank, and the texts they stand for.
Words ==
    {[text |-> <<"x">>, value |-> <<"x">>],
     [text |-> <<"'", "x", "'">>, value |-> <<"x">>],
     [text |-> <<"'", "a", " ", "b", "'">>,
      value |-> <<"a", " ", "b">>]}

WordTexts == {w.text : w \in Words}

OperatorTexts ==
    {first_level_operators[i] : i \in 1..Len(first_level_operators)}

\* An operator the compiler does not know.
UnknownOperator == <<"?">>

\* The items of a bracket list, and the lists of at most MaxItems items
\* separated by "," or by ", ".
MaxItems == 3

ListItems ==
    {<<"3">>, <<"3", "3">>, <<"x">>, <<"'", "x", "'">>,
     <<"'", "a", " ", "b", "'">>,
     <<"'", "a", ",", "b", "'">>}

RECURSIVE JoinWith(_, _)
JoinWith(splits, separator) ==
    IF Len(splits) = 0 THEN <<>>
    ELSE IF Len(splits) = 1 THEN splits[1]
    ELSE splits[1] \o separator \o JoinWith(Tail(splits), separator)

ItemLists == UNION {[1..n -> ListItems] : n \in 0..MaxItems}

Bracket(items, separator) == <<"[">> \o JoinWith(items, separator) \o <<"]">>

BracketTexts ==
    {Bracket(items, separator) :
        items \in ItemLists, separator \in {<<",">>, <<",", " ">>}}

\* A single comparison: operand1 operator operand2.
Comparisons ==
    {Join(<<f, op, v>>) :
        f \in Fields, op \in OperatorTexts \cup {UnknownOperator},
        v \in NumberTexts \cup WordTexts \cup {<<"[", "3", ",", "4", "]">>}}

Memberships == {Join(<<f, <<"i", "n">>, l>>) : f \in Fields, l \in BracketTexts}

\* The comparisons that groups are built from, one of each kind.
Terms ==
    {<<"f", " ", "=", " ", "3">>,
     <<"g", " ", ">", " ", "3", "3">>,
     <<"v", ".", "h", " ", "e", "q", " ", "'", "a", " ", "b", "'">>,
     <<"g", " ", "<", "=", " ", "3">>,
     <<"f", " ", "!", "%", " ", "x">>,
     <<"g", " ", "i", "n", " ", "[", "3", ",", "4", "]">>}

Junctions == {AND, OR}

Group(text) == <<"(">> \o text \o <<")">>

\* Two and three terms joined, with and without explicit grouping.
Joined ==
    {Join(<<A, j, B>>) : A \in Terms, j \in Junctions, B \in Terms}
    \cup {Join(<<A, j, B, k, C>>) :
            A \in Terms, j \in Junctions, B \in Terms, k \in Junctions,
            C \in Terms}
    \cup {Join(<<A, j, Group(Join(<<B, k, C>>))>>) :
            A \in Terms, j \in Junctions, B \in Terms, k \in Junctions,
            C \in Terms}
    \cup {Join(<<Group(Join(<<A, j, B>>)), k, C>>) :
            A \in Terms, j \in Junctions, B \in Terms, k \in Junctions,
            C \in Terms}

\* Texts that are not well formed: at most MaxTokens tokens, among them
\* the empty one, a junction and a group of a single token.
MaxTokens == 4

Tokens ==
    {<<>>, <<"f">>, <<"=">>, <<">">>, <<"3">>, AND, OR, UnknownOperator,
     Group(<<"f">>), Group(<<>>)}

Malformed == {Join(t) : t \in UNION {[1..n -> Tokens] : n \in 1..MaxTokens}}

\* A term, a group, and a chain of two terms, in parentheses of their own.
Grouped ==
    {Group(A) : A \in Terms} \cup {Group(Group(A)) : A \in Terms}
    \cup {Group(Join(<<A, j, B>>)) : A \in Terms, j \in Junctions, B \in Terms}

\* Operands of "%" and "!%" that are no regular expression, and two that
\* are.
Patterns ==
    {Join(<<f, op, v>>) :
        f \in Fields, op \in {<<"%">>, <<"!", "%">>},
        v \in {<<"a", "(", "b">>, <<"a", ")">>, <<"[", "]">>, <<"[", "3">>, <<"[", "]", "]">>}}

\* The malformed texts: a comparison without its second comparand, one
\* with an unknown operator, a single token, and a comparison with nothing
\* before or nothing after a junction.
SyntaxErrors ==
    {Join(<<f, op>>) : f \in Fields, op \in OperatorTexts}
    \cup {Join(<<f, UnknownOperator, n>>) : f \in Fields, n \in NumberTexts}
    \cup {<<"f">>, <<"3">>}
    \cup {Join(<<j, <<"f">>, <<"=">>, <<"3">>>>) : j \in Junctions}
    \cup {Join(<<<<"f">>, <<"=">>, <<"3">>, j>>) : j \in Junctions}

Queries ==
    {<<>>} \cup Comparisons \cup Memberships \cup Joined \cup Malformed
    \cup Grouped \cup Patterns \cup SyntaxErrors

-----------------------------------------------------------------------------
(* The compiler on its own: a query is drawn, and transform_request is      *)
(* applied to it.                                                           *)

ParserInit ==
    /\ StoreInit
    /\ request \in {[str_query |-> q, returned |-> FALSE,
                     result |-> Returns(EmptyFilter)] : q \in Queries}

TransformRequest ==
    /\ ~request.returned
    /\ request' = [request EXCEPT
                     !.returned = TRUE,
                     !.result = transform_request(request.str_query)]
    /\ UNCHANGED <<db, meta, handles, bulk, writes, forkedBy, outcome>>

ParserNext == TransformRequest

ParserSpec == ParserInit /\ [][ParserNext]_vars

-----------------------------------------------------------------------------
\* The filters of a filter: itself and those of its list.
RECURSIVE Filters(_)
Filters(mongo) ==
    {mongo} \cup UNION {Filters(mongo.list[i]) : i \in 1..Len(mongo.list)}

\* C21: "f <= n" compiles to the strict predicate f < n+1 and "f >= n" to
\* the strict predicate f > n-1, for every field path f and number n, and
\* no filter holds an inclusive comparator.
C21_InclusiveComparisons ==
    request.returned
    => /\ \A f \in Fields, n \in Numbers :
            /\ request.str_query = Join(<<f, <<"<", "=">>, n.text>>)
               => request.result
                  = Returns(FieldOp(f, "$lt", Float(n.value + 1)))
            /\ request.str_query = Join(<<f, <<">", "=">>, n.text>>)
               => request.result
                  = Returns(FieldOp(f, "$gt", Float(n.value - 1)))
       /\ \A m \in Filters(request.result.mongo) :
            m.oper \notin {"$lte", "$gte"}

\* C21 witness: "v.h >= 33" has been compiled to v.h > 32.
C21_Witness ==
    /\ request.returned
    /\ request.str_query = Join(<<<<"v", ".", "h">>, <<">", "=">>, <<"3", "3">>>>)
    /\ request.result.mongo = FieldOp(<<"v", ".", "h">>, "$gt", Float(32))

\* The operators that compare texts and those that compare numbers, each
\* with the key of the predicate it gives ("" for plain equality).
TextOperators ==
    {[text |-> <<"e", "q">>, oper |-> ""], [text |-> <<"!", "e", "q">>, oper |-> "$ne"],
     [text |-> <<"%">>, oper |-> "$regex"]}

NumberOperators ==
    {[text |-> <<"=">>, oper |-> ""], [text |-> <<"!", "=">>, oper |-> "$ne"],
     [text |-> <<">">>, oper |-> "$gt"], [text |-> <<"<">>, oper |-> "$lt"]}

\* A number read as a text.
NumberWords == {[text |-> n.text, value |-> n.text] : n \in Numbers}

Quoted(item) == item[1] = "'"

Unquoted(item) == SubSeq(item, 2, Len(item) - 1)

NumberOf(text) == (CHOOSE n \in Numbers : n.text = text).value

ListOf(items, separator) ==
    IF \E i \in 1..Len(items) : Quoted(items[i])
    THEN LET quoted == SelectSeq(items, Quoted)
         IN  [i \in 1..Len(quoted) |-> Str(Unquoted(quoted[i]))]
    ELSE IF \A i \in 1..Len(items) : items[i] \in NumberTexts
    THEN [i \in 1..Len(items) |-> Float(NumberOf(items[i]))]
    ELSE <<Str(JoinWith(items, separator))>>

\* C23: "f in [list]" compiles to the membership of f in the list the
\* bracket stands for: the quoted texts in order when the bracket holds
\* quoted items, else the numbers in order when every item is a number,
\* else the single text between the brackets.
C23_Membership ==
    request.returned
    => \A f \in Fields, items \in ItemLists,
          separator \in {<<",">>, <<",", " ">>} :
            request.str_query = Join(<<f, <<"i", "n">>, Bracket(items, separator)>>)
            => request.result
               = Returns(FieldOp(f, "$in", List(ListOf(items, separator))))

\* The terms that groups are built from, each with the predicate it
\* stands for.
TermFilters ==
    {[text |-> <<"f", " ", "=", " ", "3">>,
      filter |-> FieldIs(<<"f">>, Float(3))],
     [text |-> <<"g", " ", ">", " ", "3", "3">>,
      filter |-> FieldOp(<<"g">>, "$gt", Float(33))],
     [text |-> <<"v", ".", "h", " ", "e", "q", " ", "'", "a", " ", "b", "'">>,
      filter |-> FieldIs(<<"v", ".", "h">>, Str(<<"a", " ", "b">>))],
     [text |-> <<"g", " ", "<", "=", " ", "3">>,
      filter |-> FieldOp(<<"g">>, "$lt", Float(4))],
     [text |-> <<"f", " ", "!", "%", " ", "x">>,
      filter |-> FieldOp(<<"f">>, "$not", Pattern(<<"x">>))],
     [text |-> <<"g", " ", "i", "n", " ", "[", "3", ",", "4", "]">>,
      filter |-> FieldOp(<<"g">>, "$in", List(<<Float(3), Float(4)>>))]}

\* C24: for all terms A, B and C, "A and (B or C)" compiles to the
\* conjunction of A with the disjunction of B and C, and "(A and B) or C" to
\* the disjunction of the conjunction of A and B with C, the branches in the
\* order of the text.
C24_Grouping ==
    request.returned
    => \A A \in TermFilters, B \in TermFilters, C \in TermFilters :
         /\ request.str_query
            = Join(<<A.text, AND, Group(Join(<<B.text, OR, C.text>>))>>)
            => request.result
               = Returns(Junction("$and",
                     <<A.filter, Junction("$or", <<B.filter, C.filter>>)>>))
         /\ request.str_query
            = Join(<<Group(Join(<<A.text, AND, B.text>>)), OR, C.text>>)
            => request.result
               = Returns(Junction("$or",
                     <<Junction("$and", <<A.filter, B.filter>>), C.filter>>))

\* C25: the compiler ends on every malformed text with a syntax error that
\* carries the offending tokens, and gives no filter for it.
C25_SyntaxError ==
    (request.returned /\ request.str_query \in SyntaxErrors)
    => /\ request.result.raise \in {"Invalid syntax", "Invalid operator"}
       /\ request.result.splits # <<>>

-----------------------------------------------------------------------------
\* versions is strictly increasing.
Increasing(versions) ==
    \A i, j \in 1..Len(versions) : i < j => versions[i] < versions[j]

\* after is before with elements appended.
Extends(after, before) ==
    /\ Len(before) <= Len(after)
    /\ SubSeq(after, 1, Len(before)) = before

\* C26: the version list of every Metadata Record is strictly increasing in
\* every reachable state, and no step of the handles and of the Bulk Writer
\* removes, reorders or changes an element of it: a step only appends.
C26_VersionsAppendOnly ==
    /\ [](\A id \in DOMAIN meta : Increasing(meta[id].version))
    /\ [][meta' # meta
          => \A id \in DOMAIN meta :
               /\ id \in DOMAIN meta'
               /\ Extends(meta'[id].version, meta[id].version)]_vars

-----------------------------------------------------------------------------
\* The dictionary id that got its forking handle in this step.
Forked == CHOOSE n \in ForkIds : forkedBy'[n] # forkedBy[n]

\* C27: a fork() computes the version number it appends when sealing and the
\* version it pins the new fork to from the latest version the Metadata
\* Record holds when fork() starts, whatever version the handle had resolved.
C27_ForkFromLatest ==
    [][forkedBy' # forkedBy
       => LET id == handles[forkedBy'[Forked]].id
              latest == LatestVersion(meta, id)
          IN  /\ meta'[Forked].ancestor_version = latest
              /\ meta[id].modified
                 => meta'[id].version = Append(meta[id].version, latest + 1)]_vars

\* C28: the sealing step of fork(), taken by the handle as fork() has
\* resolved it: with modified set it appends the handle's version plus 1 and
\* clears the flag, with modified clear it leaves list and flag alone; the
\* new Metadata Record names the original's dict_id and the version the
\* handle sealed, and the original handle ends on the last listed version.
C28_SealingStep ==
    [][forkedBy' # forkedBy
       => LET h == Synced(forkedBy'[Forked])
              before == meta[h.id]
              after == meta'[h.id]
          IN  /\ before.modified
                 => /\ after.version = Append(before.version, h.version + 1)
                    /\ ~after.modified
              /\ ~before.modified
                 => /\ after.version = before.version
                    /\ ~after.modified
              /\ meta'[Forked].ancestor_fork = h.id
              /\ meta'[Forked].ancestor_version = h.version
              /\ handles'[forkedBy'[Forked]].version
                 = LatestVersion(meta', h.id)]_vars

\* A written original has been forked: version 1 is sealed, the fork is
\* pinned to version 0 and the original has moved on to version 1.
C28_Witness ==
    \E n \in ForkIds :
        /\ forkedBy[n] # None
        /\ n \in DOMAIN meta
        /\ LET s == forkedBy[n]
               id == meta[n].ancestor_fork
           IN  /\ handles[s].open
               /\ handles[s].id = id
               /\ writes > 0
               /\ meta[id].version = <<1>>
               /\ ~meta[id].modified
               /\ meta[n].ancestor_version = 0
               /\ handles[s].version = 1

-----------------------------------------------------------------------------
\* The records MongoDict(id, version=v) leaves behind: _load_version creates
\* the record of every dictionary of its father chain that has none.
EnsureFathers(m, id, v) ==
    LET chain == FatherChain(m, id, v)
        ids == {chain[i][1] : i \in 1..Len(chain)} \ DOMAIN m
    IN  [x \in DOMAIN m \cup ids |-> IF x \in DOMAIN m THEN m[x] ELSE NewMeta]

\* DictDropper.drop_dict(dict_id, remove_all_versions=False), dict_id a
\* dictionary that has a record: the collection of the latest version is
\* dropped through a MongoDict handle built on dict_id, and the record loses
\* its last version, or is deleted when it lists none.
DropLatest(id) ==
    /\ id \in DOMAIN meta
    /\ NoHandleUses(id)
    /\ LET versions == meta[id].version
           latest == LatestVersion(meta, id)
           m1 == EnsureFathers(meta, id, latest)
       IN  /\ outcome' = [NoOutcome EXCEPT
                            !.call = "drop_latest", !.args = <<id>>,
                            !.value = Len(versions) + 1,
                            !.moved = Len(db[CollName(id, latest)])]
           /\ db' = [db EXCEPT ![CollName(id, latest)] = <<>>]
           /\ meta' = IF Len(versions) > 0
                      THEN [m1 EXCEPT ![id] =
                               [meta[id] EXCEPT
                                  !.version = SubSeq(versions, 1, Len(versions) - 1)]]
                      ELSE [x \in DOMAIN m1 \ {id} |-> m1[x]]
    /\ UNCHANGED <<handles, bulk, writes, forkedBy, request>>

NextWithDropLatest ==
    \/ NextWithDropper
    \/ \E id \in DictIds : DropLatest(id)

SpecWithDropLatest == Init /\ [][NextWithDropLatest]_vars

\* C29: a drop of dict_id, of all its versions or of the latest one, leaves
\* the Metadata Record (present or absent, and its four fields) and every
\* collection of every other dictionary as they were, descendants included.
C29_DropFrame ==
    [][outcome'.call \in {"drop", "drop_latest"}
       => LET id == outcome'.args[1]
          IN  /\ \A x \in DictIds \ {id} :
                    /\ x \in DOMAIN meta' <=> x \in DOMAIN meta
                    /\ x \in DOMAIN meta => meta'[x] = meta[x]
              /\ \A c \in Colls : c[1] # id => db'[c] = db[c]]_vars

-----------------------------------------------------------------------------
(* Immutable handles.  A father is built by _load_version or by              *)
(* ForkedMongoDict.__init__ and is held by its handle only; the Bulk Writer  *)
(* is a MongoDict built with immutable_version=True, and the client that     *)
(* has it can call every method it inherits.                                *)

\* The i-th father of the handle in slot s.  The task of a father built for a
\* delta version is opened before the father is marked immutable, so the
\* father may have update_required set.
FatherHandle(s, i, required) ==
    LET chain == handles[s].father
    IN  [ClosedHandle EXCEPT
           !.open = TRUE, !.id = chain[i][1], !.version = chain[i][2],
           !.immutable = TRUE, !.update_required = required,
           !.cls = IF i < Len(chain) THEN "ForkedMongoDict" ELSE "MongoDict",
           !.instance = chain[i],
           !.father = SubSeq(chain, i + 1, Len(chain))]

\* The handle a Bulk Writer is.
BulkHandle ==
    [ClosedHandle EXCEPT
       !.open = TRUE, !.id = bulk.id, !.version = bulk.instance[2],
       !.immutable = TRUE, !.allow_morph = FALSE, !.cls = "BulkMongoDict",
       !.instance = bulk.instance]

ImmutableHandles ==
    UNION {{FatherHandle(s, i, r) :
               i \in 1..Len(handles[s].father), r \in BOOLEAN} :
           s \in {x \in HandleIds : handles[x].open}}
    \cup (IF bulk.open THEN {BulkHandle} ELSE {})

\* The slot name fork() of the Bulk Writer is recorded under.
BulkWriter == "BulkWriter"

\* A read of the Bulk Writer (force = FALSE) or an equality comparison with it
\* (force = TRUE): both begin with _update_from_latest.
BulkResync(force) ==
    /\ bulk.open
    /\ outcome' = NoOutcome
    /\ UNCHANGED request
    /\ bulk' = [bulk EXCEPT
                  !.instance = update_from_latest(BulkHandle, force, meta).instance]
    /\ UNCHANGED <<db, meta, handles, writes, forkedBy>>

\* fork(new_id) called on the Bulk Writer, which inherits it from MongoDict.
BulkFork(new_id) ==
    /\ bulk.open
    /\ outcome' = NoOutcome
    /\ UNCHANGED request
    /\ new_id # bulk.id
    /\ IsNextFresh(meta, new_id)
    /\ forkedBy[new_id] = None
    /\ LET h1 == update_from_latest(BulkHandle, FALSE, meta)
           m1 == Seal(meta, h1)
           m2 == EnsureMeta(m1, new_id)
           m3 == RecordAncestor(m2, new_id, h1)
       IN  /\ meta' = m3
           /\ handles' = [handles EXCEPT
                            ![new_id] = ForkedMongoDictInit(h1, new_id, m2)]
           /\ bulk' = [bulk EXCEPT
                         !.instance = load_version(h1, <<>>, m3).instance]
    /\ forkedBy' = [forkedBy EXCEPT ![new_id] = BulkWriter]
    /\ UNCHANGED <<db, writes>>

\* The writes, forks and task runs of the handles, the scope of a Bulk Writer,
\* and the inherited methods called on the Bulk Writer.  The operations a
\* Bulk Writer queues are left to Spec: they touch no version.
NextWithBulkFork ==
    \/ \E s \in ClientHandles : Open(s, RootId)
    \/ \E s \in HandleIds, k \in Keys, v \in Values : SetItem(s, k, v)
    \/ \E s \in HandleIds, new_id \in ForkIds : Fork(s, new_id)
    \/ \E s \in HandleIds : Poll(s)
    \/ \E s \in HandleIds, n \in BufferSizes, u \in BOOLEAN : BulkEnter(s, n, u)
    \/ BulkExit
    \/ \E force \in BOOLEAN : BulkResync(force)
    \/ \E new_id \in ForkIds : BulkFork(new_id)

SpecWithBulkFork == Init /\ [][NextWithBulkFork]_vars

\* C30: on an immutable handle a run of the Sync Monitor task does nothing
\* and no resync, forced or not, changes the version, whatever the Metadata
\* Record holds; and a Bulk Writer keeps the version it was created with
\* through every step taken while it is open.
C30_ImmutableVersion ==
    /\ [](\A h \in ImmutableHandles :
            /\ update_thread_checker(h, meta) = h
            /\ \A force \in BOOLEAN :
                  update_from_latest(h, force, meta).version = h.version)
    /\ [][(bulk.open /\ bulk'.open)
          => bulk'.instance[2] = bulk.instance[2]]_vars

-----------------------------------------------------------------------------
(* What a filter selects (collection.find(mongo_query), line 297), for the   *)
(* filters the compiler writes and documents with the fields of the terms.  *)

\* Documents: a value for each field path of the terms.
Documents ==
    [f : {Float(3), Float(0), Str(<<"x">>)},
     g : {Float(3), Float(10), Float(34)},
     vh : {Str(<<"a", " ", "b">>), Str(<<"c">>)}]

FieldValue(x, field) ==
    IF field = <<"f">> THEN x.f
    ELSE IF field = <<"g">> THEN x.g
    ELSE x.vh

\* Whether the pattern is found somewhere in the text (a pattern of plain
\* characters).
Occurs(pattern, text) ==
    \E i \in 0..(Len(text) - Len(pattern)) :
        SubSeq(text, i + 1, i + Len(pattern)) = pattern

\* Whether a document satisfies a filter.
RECURSIVE Find(_, _)
Find(mongo, x) ==
    LET v == FieldValue(x, mongo.field)
    IN  CASE mongo.type = "{}" -> TRUE
          [] mongo.type = "$and" ->
               \A i \in 1..Len(mongo.list) : Find(mongo.list[i], x)
          [] mongo.type = "$or" ->
               \E i \in 1..Len(mongo.list) : Find(mongo.list[i], x)
          [] OTHER ->
               CASE mongo.oper = "" -> v = mongo.value
                 [] mongo.oper = "$gt" ->
                      v.type = "float" /\ v.float > mongo.value.float
                 [] mongo.oper = "$lt" ->
                      v.type = "float" /\ v.float < mongo.value.float
                 [] mongo.oper = "$in" ->
                      \E i \in 1..Len(mongo.value.list) : v = mongo.value.list[i]
                 [] mongo.oper = "$not" ->
                      ~(v.type = "str" /\ Occurs(mongo.value.str, v.str))
                 [] OTHER -> FALSE

\* The result selects exactly the documents that satisfy P.
Selects(result, P(_)) ==
    /\ result.raise = ""
    /\ \A x \in Documents : Find(result.mongo, x) <=> P(x)

\* The terms that compare a field with one value.
ComparisonTerms == {T \in TermFilters : T.filter.oper # "$in"}

\* C35: a chain without parentheses is split at its first junction and the
\* rest is compiled on its own: "T1 and T2 or T3" selects the documents of
\* T1 and (T2 or T3), "T1 or T2 and T3" those of T1 or (T2 and T3), a chain
\* of and the documents of all its terms and a chain of or those of any.
C35_Chains ==
    request.returned
    => \A A \in ComparisonTerms, B \in ComparisonTerms, C \in ComparisonTerms :
         LET a(x) == Find(A.filter, x)
             b(x) == Find(B.filter, x)
             c(x) == Find(C.filter, x)
             q == request.str_query
             r == request.result
         IN  /\ q = Join(<<A.text, AND, B.text, OR, C.text>>)
                => Selects(r, LAMBDA x : a(x) /\ (b(x) \/ c(x)))
             /\ q = Join(<<A.text, OR, B.text, AND, C.text>>)
                => Selects(r, LAMBDA x : a(x) \/ (b(x) /\ c(x)))
             /\ q = Join(<<A.text, AND, B.text, AND, C.text>>)
                => Selects(r, LAMBDA x : a(x) /\ b(x) /\ c(x))
             /\ q = Join(<<A.text, OR, B.text, OR, C.text>>)
                => Selects(r, LAMBDA x : a(x) \/ b(x) \/ c(x))
             /\ q = Join(<<A.text, AND, B.text>>)
                => Selects(r, LAMBDA x : a(x) /\ b(x))
             /\ q = Join(<<A.text, OR, B.text>>)
                => Selects(r, LAMBDA x : a(x) \/ b(x))

-----------------------------------------------------------------------------
\* The tokens transform_request splits a query text into (line 86).
QueryTokens(str_query) ==
    do_split(str_query, " ", <<"(", "[", "'">>, <<")", "]", "'">>, <<"[">>)

\* C36: the tokens of "A and B" are the tokens of A, the junction and the
\* tokens of B, whatever span A ends with, a group "(A or B)" is one token
\* without its parentheses followed by all the tokens after it, and a
\* membership term joined by "and" to a comparison term compiles to the
\* conjunction of both, in either order.
C36_SpansKeepFollowingTokens ==
    request.returned
    => \A A \in TermFilters, B \in TermFilters :
         LET q == request.str_query
         IN  /\ q = Join(<<A.text, AND, B.text>>)
                => /\ QueryTokens(q)
                      = QueryTokens(A.text) \o <<AND>> \o QueryTokens(B.text)
                   /\ request.result
                      = Returns(Junction("$and", <<A.filter, B.filter>>))
             /\ q = Join(<<Group(Join(<<A.text, OR, B.text>>)), AND, B.text>>)
                => QueryTokens(q)
                   = <<Join(<<A.text, OR, B.text>>), AND>> \o QueryTokens(B.text)

-----------------------------------------------------------------------------
\* The well-formed expressions: a comparison term and a chain of two.
Expressions ==
    Terms \cup {Join(<<A, j, B>>) : A \in Terms, j \in Junctions, B \in Terms}

\* C37: an expression in parentheses compiles, and to the filter the
\* expression compiles to without them.
C37_ParenthesesNeutral ==
    (request.returned /\ \E E \in Expressions : request.str_query = Group(E))
    => LET E == CHOOSE E \in Expressions : request.str_query = Group(E)
       IN  /\ request.result.raise = ""
           /\ request.result = transform_request(E)

-----------------------------------------------------------------------------
\* C34: every collection holds at most one entry per key, in every state
\* reached by sets, deletes, tombstoning deletes, forks and the commits of
\* Bulk Writers in upsert and in insert-only mode.
C34_OneEntryPerKey ==
    \A c \in Colls, k \in Keys : Cardinality(Indexes(db[c], k)) <= 1

-----------------------------------------------------------------------------
\* C38: on every open overlay handle, the length is the number of keys
\* that keys() returns.
C38_LengthIsKeyCount ==
    \A s \in HandleIds :
        (handles[s].open /\ handles[s].cls = "ForkedMongoDict")
        => LET colls == HandleColls(Synced(s))
           IN  ForkedLen(db, colls) = Len(ForkedKeysList(db, colls))

-----------------------------------------------------------------------------
\* The batch ops holds an upserting set of k to v and no other operation
\* on k.
SetsOnly(ops, k, v) ==
    /\ \E i \in 1..Len(ops) : ops[i].key = k
    /\ \A i \in 1..Len(ops) :
          ops[i].key = k => ops[i].type = "update" /\ ops[i].value = v

\* What the claim says of the step that commits the batch ops of the writer
\* of a Forked Dictionary opened by the handle bulk.owner.
SetCommitted(ops) ==
    \A k \in Keys, v \in Values :
        (bulk.forked /\ SetsOnly(ops, k, v))
        => /\ ShowGet(db', meta', handles'[bulk.owner], k) = Found(v)
           /\ ShowContains(db', meta', handles'[bulk.owner], k)

\* C40: after the Bulk Writer of a Forked Dictionary commits an upserting
\* set of k to v, get(k) on the fork returns v and contains(k) is true, also when k
\* held a local tombstone before the commit.
C40_BulkSetOnFork ==
    [][(bulk.open /\ bulk' # bulk /\ ~bulk'.raised)
       => /\ (writes' # writes /\ Len(bulk.operations) + 1 > bulk.buffer_size)
             => /\ \A k \in Keys, v \in Values :
                      BulkSetItem(k, v)
                      => SetCommitted(Append(bulk.operations, SetOperation(k, v)))
                /\ \A k \in Keys :
                      BulkDelItem(k)
                      => SetCommitted(Append(bulk.operations, DelOperation(k)))
          /\ bulk' = NoBulk => SetCommitted(bulk.operations)]_vars

-----------------------------------------------------------------------------
\* What the claim says of a handle h that has just resolved against the
\* metadata m: root exactly at version 0 of a dictionary with no recorded
\* ancestor, otherwise an overlay whose father is the version before, or the
\* recorded ancestor; and its collection is that of its id and version.
ResolvedAsClaimed(h, m) ==
    /\ (h.cls = "MongoDict") <=> (h.version = 0 /\ m[h.id].ancestor_fork = None)
    /\ h.cls = "MongoDict" => h.father = <<>>
    /\ h.cls = "ForkedMongoDict"
       => /\ h.father # <<>>
          /\ h.father[1] = IF h.version > 0
                           THEN CollName(h.id, h.version - 1)
                           ELSE CollName(m[h.id].ancestor_fork,
                                         m[h.id].ancestor_version)
    /\ h.instance = CollName(h.id, h.version)

\* The step opens the handle s, or re-resolves it: by the resync of a flagged
\* handle or by an equality comparison.
Resolves(s) ==
    /\ handles'[s].open
    /\ \/ ~handles[s].open
       \/ handles[s].update_required /\ ~handles'[s].update_required
       \/ outcome'.call = "eq" /\ s \in {outcome'.args[1], outcome'.args[2]}

\* DictDropper.drop_dict(dict_id, remove_all_versions=False) on a dictionary
\* with a sealed version, while handles on it may be open: the collection of
\* the latest version is dropped and the record loses its last version.
DropLatestInUse(id) ==
    /\ id \in DOMAIN meta
    /\ Len(meta[id].version) > 0
    /\ LET versions == meta[id].version
           latest == LatestVersion(meta, id)
           m1 == EnsureFathers(meta, id, latest)
       IN  /\ outcome' = [NoOutcome EXCEPT
                            !.call = "drop_latest", !.args = <<id>>,
                            !.value = Len(versions) + 1,
                            !.moved = Len(db[CollName(id, latest)])]
           /\ db' = [db EXCEPT ![CollName(id, latest)] = <<>>]
           /\ meta' = [m1 EXCEPT ![id] =
                          [meta[id] EXCEPT
                             !.version = SubSeq(versions, 1, Len(versions) - 1)]]
    /\ UNCHANGED <<handles, bulk, writes, forkedBy, request>>

NextWithDropInUse ==
    \/ \E s \in ClientHandles : Open(s, RootId)
    \/ \E s \in HandleIds, new_id \in ForkIds : Fork(s, new_id)
    \/ \E s \in HandleIds : Poll(s)
    \/ \E s, t \in HandleIds : Eq(s, t)
    \/ \E id \in DictIds : DropLatestInUse(id)

SpecWithDropInUse == Init /\ [][NextWithDropInUse]_vars

\* C33: after every open and every re-resolve the handle is a root exactly
\* when it is at version 0 of a dictionary with no ancestor_fork, and an
\* overlay on the version before or on the recorded ancestor otherwise; its
\* collection is the one of its dict_id and resolved version.
C33_ResolvedBehaviour ==
    [][\A s \in HandleIds :
          Resolves(s) => ResolvedAsClaimed(handles'[s], meta')]_vars

-----------------------------------------------------------------------------
\* The step is a public operation of the handle s: a set, a delete, a read
\* (get, contains, length, keys, values, items, iteration, query), a fork or
\* the opening of a bulk scope.
Operates(s) ==
    \/ \E k \in Keys, v \in Values : SetItem(s, k, v)
    \/ \E k \in Keys : DelItem(s, k)
    \/ Read(s)
    \/ \E new_id \in ForkIds : Fork(s, new_id)
    \/ \E n \in BufferSizes, u \in BOOLEAN : BulkEnter(s, n, u)

\* C31: a public operation of a handle that its monitor has flagged clears
\* the flag and runs at the latest version of the Metadata Record: the
\* handle is at that version or a later one after the operation, and a
\* Bulk Writer it opens writes to the collection of that version.
C31_FlagHonoured ==
    [][\A s \in HandleIds :
          (handles[s].open /\ handles[s].update_required
           /\ ~handles[s].immutable /\ Operates(s))
          => /\ ~handles'[s].update_required
             /\ handles'[s].version >= LatestVersion(meta, handles[s].id)
             /\ (bulk'.open /\ ~bulk.open)
                => bulk'.instance
                      = CollName(handles[s].id, LatestVersion(meta, handles[s].id))]_vars

-----------------------------------------------------------------------------
(* Teardown.  A handle that was torn down keeps the fields of its object,   *)
(* which the thread of its executor still holds; only open turns FALSE.     *)

\* BasicMongoDict.__del__: the client is synced and closed.  The executor
\* opened by MongoDict.__init__ is left as it is.
Teardown(s) ==
    /\ handles[s].open
    /\ handles' = [handles EXCEPT ![s].open = FALSE]
    /\ outcome' = [NoOutcome EXCEPT !.call = "del", !.args = <<s>>]
    /\ UNCHANGED <<db, meta, bulk, writes, forkedBy, request>>

\* One run of the executor opened at lines 353-355 on the handle object s:
\* _update_thread_checker opens the Metadata Registry, reads the record of
\* the dictionary and flags the handle; it returns True, which keeps the
\* executor running.
MonitorRun(s) ==
    /\ handles[s].id # None
    /\ ~handles[s].immutable /\ handles[s].allow_morph
    /\ handles' = [handles EXCEPT ![s] = update_thread_checker(@, meta)]
    /\ outcome' = [NoOutcome EXCEPT !.call = "monitor", !.args = <<s>>]
    /\ UNCHANGED <<db, meta, bulk, writes, forkedBy, request>>

NextWithTeardown ==
    \/ \E s \in ClientHandles : Open(s, RootId)
    \/ \E s \in HandleIds, new_id \in ForkIds : Fork(s, new_id)
    \/ \E s \in HandleIds : Teardown(s)
    \/ \E s \in HandleIds : MonitorRun(s)

SpecWithTeardown == Init /\ [][NextWithTeardown]_vars

\* C32: after the teardown of a handle no periodic check runs for it and
\* the Metadata Registry is not read for it: every run of a monitor is the
\* run of a handle that is open.
C32_MonitorStopsAtTeardown ==
    [][outcome'.call = "monitor" => handles[outcome'.args[1]].open]_vars

-----------------------------------------------------------------------------
(* fork(new_id) onto a dictionary that exists already.                      *)

\* The longest father chain of an acyclic ancestry: one step per version of
\* every dictionary.
ChainBound == Cardinality(DictIds) * (MaxVersion + 1)

\* The recursion of _load_version (lines 395-402) from version v of the
\* dictionary id ends at a root within n constructions of a father.
RECURSIVE ReachesRoot(_, _, _, _)
ReachesRoot(m, id, v, n) ==
    IF v > 0 THEN n > 0 /\ ReachesRoot(m, id, v - 1, n - 1)
    ELSE IF id \in DOMAIN m /\ m[id].ancestor_fork # None
         THEN n > 0 /\ ReachesRoot(m, m[id].ancestor_fork,
                                   m[id].ancestor_version, n - 1)
         ELSE TRUE

Acyclic(m) == \A id \in DOMAIN m : ReachesRoot(m, id, 0, ChainBound)

\* s.fork(new_id), new_id the id of a dictionary that has a record and is not
\* the dictionary of s; the caller does not keep the handle fork() returns.
\* ForkedMongoDict.__init__ opens new_id as it is recorded and then
\* overwrites its ancestor linkage; the _load_version() that ends fork()
\* sets the version of s and builds its fathers, which recurses without end
\* (RecursionError) when the chain of s has become a cycle.
ForkOnto(s, new_id) ==
    /\ handles[s].open
    /\ new_id \in DOMAIN meta
    /\ new_id # Synced(s).id
    /\ LET h1 == Synced(s)
           m1 == Seal(meta, h1)
           m3 == RecordAncestor(m1, new_id, h1)
           latest == LatestVersion(m3, h1.id)
           returns == ReachesRoot(m3, h1.id, latest, ChainBound)
       IN  /\ meta' = m3
           /\ handles' = [handles EXCEPT
                            ![s] = IF returns THEN load_version(h1, <<>>, m3)
                                   ELSE [h1 EXCEPT !.version = latest,
                                                   !.update_required = FALSE]]
           /\ outcome' = [NoOutcome EXCEPT !.call = "fork",
                                           !.args = <<s, new_id>>,
                                           !.raised = ~returns]
    /\ UNCHANGED <<db, bulk, writes, forkedBy, request>>

\* Once the ancestry holds a cycle no further step is followed: the opens
\* and resolves of the dictionaries on the cycle do not return.
NextWithForkOnto ==
    \/ Acyclic(meta) /\ \E s \in ClientHandles : Open(s, RootId)
    \/ Acyclic(meta) /\ \E s \in HandleIds, new_id \in ForkIds : Fork(s, new_id)
    \/ Acyclic(meta) /\ \E s \in HandleIds : Poll(s)
    \/ Acyclic(meta) /\ \E s \in HandleIds, new_id \in DictIds : ForkOnto(s, new_id)

SpecWithForkOnto == Init /\ [][NextWithForkOnto]_vars

\* C39: the ancestry recorded in the Metadata Registry is acyclic: from
\* every dictionary the father links reach a root in finitely many steps,
\* also after forks onto the id of an existing dictionary or of an ancestor.
C39_AncestryAcyclic == Acyclic(meta)
====
